---------------------------- MODULE Spec2Model ----------------------------
(***************************************************************************)
(* A model of the Flashpoint notebook client: the cell command parser      *)
(* (flashpoint_utils/user_input_parser.py), the HTTP worker and the        *)
(* thread-pool dispatcher (flashpoint_utils/flashpoint_api.py), the        *)
(* response flatteners (flashpoint_utils/api_response_parser.py) and the   *)
(* entry point customQuery (flashpoint_core/flashpoint_full.py).           *)
(*                                                                         *)
(* A Python str is a sequence of one-character strings, a Python list a    *)
(* sequence, bytes a sequence of numbers 0..255.  The upstream service is  *)
(* the environment: it answers every request with a status and a body      *)
(* chosen nondeterministically.                                            *)
(***************************************************************************)
EXTENDS Integers, Sequences, FiniteSets, TLC

\* ------------------------------------------------------------------ bounds
\* Most items one batch holds (query terms of a search_chat, hits of a search).
MaxItems == 3
\* Most hits one search response holds.
MaxHits == 2
\* The retry ceiling the session was configured with (flashpoint_max_retries).
max_retries == 2
\* The pool size the session was configured with (flashpoint_max_workers).
max_workers == 2
\* The calls made on one session-based client.
MaxCalls == 3

\* ----------------------------------------------------------------- strings
S_get_image == <<"g", "e", "t", "_", "i", "m", "a", "g", "e">>
S_search_media == <<"s", "e", "a", "r", "c", "h", "_", "m", "e", "d", "i", "a">>
S_search_chat == <<"s", "e", "a", "r", "c", "h", "_", "c", "h", "a", "t">>
S_u == <<"-", "u">>
S_uri == <<"-", "-", "u", "r", "i">>
S_q == <<"-", "q">>
S_s == <<"-", "s">>
S_images == <<"-", "-", "i", "m", "a", "g", "e", "s">>
S_no_images == <<"-", "-", "n", "o", "-", "i", "m", "a", "g", "e", "s">>
S_l == <<"-", "l">>
S_e == <<"-", "e">>
S_now == <<"n", "o", "w">>
S_2024_01_01 == <<"2", "0", "2", "4", "-", "0", "1", "-", "0", "1">>
S_2023_12_31 == <<"2", "0", "2", "3", "-", "1", "2", "-", "3", "1">>
S_alpha == <<"\"", "a", "\"">>
S_beta == <<"\"", "b", "\"">>
S_wells == <<"w", "f">>
S_quoted == <<"'", "|", "\"", "w", "\"", " ", "|", "c", "'">>
S_quoted_term == <<"'", "a", "'">>
S_nolist == <<"z", "z">>
S_dash_h == <<"w", "-", "h">>
S_h == <<"-", "h">>
S_help == <<"-", "-", "h", "e", "l", "p">>

\* The HTTP statuses the upstream service answers with: success, rate-limited,
\* and one hard error standing for every other status.
Statuses == {200, 429, 500}

\* Raw image bytes the media endpoint may return (the first is the JPEG magic).
ImageBodies == {<<255, 216, 255>>, <<137, 80>>}

\* The body of a response that is not a 200: a JSON error document, "{}".
ErrorBody == <<123, 125>>

\* ---------------------------------------------------------- Python values
\* The value of the uri argument is a str when the cell parser stored it and
\* a list of str when a caller passes one; both are kept with their type,
\* since the code iterates over whichever it is given.
PyStr(chars) == [type |-> "str", v |-> chars]
PyList(elems) == [type |-> "list", v |-> elems]

\* What "for u in x" goes through: the characters of a str, each a str of
\* length one, and the elements of a list.
Iterate(x) ==
    IF x.type = "str" THEN [i \in 1..Len(x.v) |-> PyStr(<<x.v[i]>>)] ELSE x.v

\* ---------------------------------------------------------- pure functions
B64Alphabet ==
    <<"A", "B", "C", "D", "E", "F", "G", "H", "I", "J", "K", "L", "M",
      "N", "O", "P", "Q", "R", "S", "T", "U", "V", "W", "X", "Y", "Z",
      "a", "b", "c", "d", "e", "f", "g", "h", "i", "j", "k", "l", "m",
      "n", "o", "p", "q", "r", "s", "t", "u", "v", "w", "x", "y", "z",
      "0", "1", "2", "3", "4", "5", "6", "7", "8", "9", "+", "/">>

B64Char(n) == B64Alphabet[n + 1]

RECURSIVE b64encode(_)
\* base64.b64encode(raw).decode(): three bytes make four characters, a last
\* group of one or two bytes is padded with "=".
b64encode(raw) ==
    IF Len(raw) = 0 THEN <<>>
    ELSE IF Len(raw) = 1 THEN
        <<B64Char(raw[1] \div 4), B64Char((raw[1] % 4) * 16), "=", "=">>
    ELSE IF Len(raw) = 2 THEN
        LET n == (raw[1] * 256 + raw[2]) * 4
        IN  <<B64Char(n \div 4096), B64Char((n \div 64) % 64), B64Char(n % 64), "=">>
    ELSE
        LET n == raw[1] * 65536 + raw[2] * 256 + raw[3]
        IN  <<B64Char(n \div 262144), B64Char((n \div 4096) % 64),
              B64Char((n \div 64) % 64), B64Char(n % 64)>>
            \o b64encode(SubSeq(raw, 4, Len(raw)))

create_b64_image_string(raw_image) == b64encode(raw_image)

format_b64_image_for_dataframe(b64_image_string) ==
    <<"<img src='data:image/jpeg;base64,">> \o b64_image_string \o <<"' />">>

RECURSIVE Pow(_, _)
Pow(b, e) == IF e = 0 THEN 1 ELSE b * Pow(b, e - 1)

BackoffBase == 3

\* A backoff that grows by a fixed step instead of by powers.
DelayLinear(retry_count) == BackoffBase * retry_count

\* delay = 3 ** retry_count
Delay(retry_count) == Pow(BackoffBase, retry_count)


\* ------------------------------------------------------ the upstream service
\* A storage URI the search index holds for the j-th hit of a response.
DigitChars == <<"0", "1", "2", "3", "4", "5", "6", "7", "8", "9">>
StorageUri(j) == <<"u", DigitChars[j + 1]>>

\* The j-th record of a search response: the request it answers (the payload's
\* query text), its rank, and _source.media.storage_uri.  image_content is the
\* key search_media adds when it merges an image; has_image says it is there.
Hit(q, j) ==
    [q |-> q, rank |-> j, storage_uri |-> StorageUri(j),
     has_image |-> FALSE, image_content |-> <<>>]

\* A 200 answer of the search endpoint with n hits.
SearchResponse(q, n) ==
    [status_code |-> 200, content_type |-> "application/json",
     has_hits |-> TRUE, hits |-> [j \in 1..n |-> Hit(q, j)], content |-> <<>>]

\* A 200 answer of the media-asset endpoint: raw image bytes.
ImageResponse(body) ==
    [status_code |-> 200, content_type |-> "image/jpeg",
     has_hits |-> FALSE, hits |-> <<>>, content |-> body]

\* A 200 answer of the media-asset endpoint that has no Content-Type header.
BareResponse(body) ==
    [status_code |-> 200, content_type |-> "",
     has_hits |-> FALSE, hits |-> <<>>, content |-> body]

\* An answer with another status: a JSON error document without hits.
ErrorResponse(status) ==
    [status_code |-> status, content_type |-> "application/json",
     has_hits |-> FALSE, hits |-> <<>>, content |-> ErrorBody]

\* Every answer the service can give to a FetchItem.
Responses(item) ==
    {ErrorResponse(s) : s \in Statuses \ {200}}
    \cup (IF item.method = "post"
          THEN {SearchResponse(item.payload.query.q, n) :
                    n \in 0..(IF item.payload.size < MaxHits
                              THEN item.payload.size ELSE MaxHits)}
          ELSE {ImageResponse(b) : b \in ImageBodies})

\* ------------------------------------------------------------------ _fetch
\* What a call of _fetch ends with when it returns no tuple: the value None
\* (raised is empty), or the exception that left it.
None == [none |-> TRUE, raised |-> ""]
Raised(e) == [none |-> TRUE, raised |-> e]
NoResponse == [status_code |-> 0]

\* The state of one call of _fetch: where it is, its retry_count, the requests
\* it has issued and the sleeps it has made in its loop, the last response,
\* the value it is to return, the calls of progress_bar.update(1) it has made
\* (bar) and the value of the bar's counter its update in progress has read
\* (n_read).  At "leaving" the loop has had its last response and the call is
\* about to act on it; retry_count, nreq and delays belong to the loop and
\* are dropped when it is left.
NewFetch(pc) ==
    [pc |-> pc, retry_count |-> 0, nreq |-> 0, delays |-> <<>>,
     response |-> NoResponse, ret |-> None, bar |-> 0, n_read |-> 0]

\* len(response.json()["hits"]["hits"]) for a JSON body, 1 for any other.
HitsCount(response) ==
    IF response.content_type = "application/json"
    THEN Len(response.hits)
    ELSE 1

FetchResult(query, response, hits_count) ==
    [none |-> FALSE, query |-> query, response |-> response,
     hits_count |-> hits_count]

\* A 429 past the ceiling that leaves the loop without a return statement.
On429Break(f, item, response) ==
    LET rc == f.retry_count + 1
    IN  IF rc <= max_retries
        THEN [f EXCEPT !.pc = "sleep", !.retry_count = rc, !.response = response,
                       !.nreq = @ + 1, !.delays = Append(@, Delay(rc))]
        ELSE [f EXCEPT !.pc = "leaving", !.retry_count = rc, !.response = response,
                       !.nreq = @ + 1, !.ret = None]

\* A 429 that moves the progress bar on every retry.
On429UpdateEach(f, item, response) ==
    LET rc == f.retry_count + 1
    IN  IF rc <= max_retries
        THEN [f EXCEPT !.pc = "sleep", !.retry_count = rc, !.response = response,
                       !.nreq = @ + 1, !.bar = @ + 1,
                       !.delays = Append(@, Delay(rc))]
        ELSE [f EXCEPT !.pc = "leaving", !.retry_count = rc, !.response = response,
                       !.nreq = @ + 1,
                       !.ret = FetchResult(item.query, response, 0)]

\* A 429 that is slept on and retried without being counted.
On429NoCount(f, item, response) ==
    [f EXCEPT !.pc = "sleep", !.response = response]

\* What _fetch does with a 429: count it, and sleep 3 ** retry_count before
\* the next attempt unless the ceiling is passed, in which case the loop is
\* left to return the 429 with hits_count 0.
On429(f, item, response) ==
    LET rc == f.retry_count + 1
    IN  IF rc <= max_retries
        THEN [f EXCEPT !.pc = "sleep", !.retry_count = rc, !.response = response,
                       !.nreq = @ + 1, !.delays = Append(@, Delay(rc))]
        ELSE [f EXCEPT !.pc = "leaving", !.retry_count = rc, !.response = response,
                       !.nreq = @ + 1,
                       !.ret = FetchResult(item.query, response, 0)]

\* What _fetch does with a 200: the loop is left to return the response with
\* its hit-count.  Without a Content-Type header headers.get returns None and
\* the "in" test of the header raises a TypeError, which leaves the call.
On200(f, item, response) ==
    IF response.content_type = ""
    THEN [f EXCEPT !.pc = "leaving", !.response = response, !.nreq = @ + 1,
                   !.ret = Raised("TypeError: argument of type 'NoneType' is not iterable")]
    ELSE [f EXCEPT !.pc = "leaving", !.response = response, !.nreq = @ + 1,
                   !.ret = FetchResult(item.query, response, HitsCount(response))]

\* A hard error that is backed off and retried like a 429.
OnOtherRetry(f, item, response) ==
    LET rc == f.retry_count + 1
    IN  IF rc <= max_retries
        THEN [f EXCEPT !.pc = "sleep", !.retry_count = rc, !.response = response,
                       !.nreq = @ + 1, !.delays = Append(@, Delay(rc))]
        ELSE [f EXCEPT !.pc = "leaving", !.retry_count = rc, !.response = response,
                       !.nreq = @ + 1, !.ret = None]

\* A hard error that is returned like an exhausted 429.
OnOtherReturn(f, item, response) ==
    [f EXCEPT !.pc = "leaving", !.response = response, !.nreq = @ + 1,
              !.ret = FetchResult(item.query, response, 0)]

\* What _fetch does with any other status: the loop is left to display an
\* error and break; the function ends without a return statement.
OnOther(f, item, response) ==
    [f EXCEPT !.pc = "leaving", !.response = response, !.nreq = @ + 1,
              !.ret = None]

\* session.request raises (the connection fails): the exception leaves the
\* loop and the function, and with them every local of the call.
OnRaise(f, e) ==
    [f EXCEPT !.pc = "leaving", !.nreq = @ + 1, !.response = NoResponse,
              !.ret = Raised(e)]

\* One turn of the while loop: a request and the branch taken on its status.
FetchStep(f, item, response) ==
    IF response.status_code = 429 THEN On429(f, item, response)
    ELSE IF response.status_code = 200 THEN On200(f, item, response)
    ELSE OnOther(f, item, response)


\* ------------------------------------------------------------ parse_input
Digits == {"0", "1", "2", "3", "4", "5", "6", "7", "8", "9"}
DigitVal(c) == CHOOSE d \in 0..9 : DigitChars[d + 1] = c

IsNumeral(s) == Len(s) >= 1 /\ \A i \in 1..Len(s) : s[i] \in Digits

RECURSIVE StrToNat(_)
StrToNat(s) ==
    IF Len(s) = 0 THEN 0
    ELSE StrToNat(SubSeq(s, 1, Len(s) - 1)) * 10 + DigitVal(s[Len(s)])

\* type=int of --limit: int(token), a numeral with an optional sign.
IntOk(s) ==
    \/ IsNumeral(s)
    \/ Len(s) >= 2 /\ s[1] \in {"-", "+"} /\ IsNumeral(Tail(s))
IntVal(s) ==
    IF s[1] = "-" THEN 0 - StrToNat(Tail(s))
    ELSE IF s[1] = "+" THEN StrToNat(Tail(s))
    ELSE StrToNat(s)

\* datetime.now().date(), as the number yyyymmdd.
Today == 20240615

Lower(c) == IF c = "N" THEN "n" ELSE IF c = "O" THEN "o" ELSE IF c = "W" THEN "w" ELSE c

DaysIn(y, m) ==
    IF m \in {4, 6, 9, 11} THEN 30
    ELSE IF m = 2
         THEN (IF (y % 4 = 0 /\ y % 100 # 0) \/ y % 400 = 0 THEN 29 ELSE 28)
         ELSE 31

\* The positions of the "-" separators of a date token.
Dashes(s) == {i \in 1..Len(s) : s[i] = "-"}

\* datetime.strptime(token, "%Y-%m-%d"): four digits, one or two, one or two,
\* and a day the month has.
DateOk(s) ==
    /\ Cardinality(Dashes(s)) = 2
    /\ LET a == CHOOSE i \in Dashes(s) : \A j \in Dashes(s) : i <= j
           b == CHOOSE i \in Dashes(s) : \A j \in Dashes(s) : i >= j
           y == SubSeq(s, 1, a - 1)
           m == SubSeq(s, a + 1, b - 1)
           d == SubSeq(s, b + 1, Len(s))
       IN  /\ Len(y) = 4 /\ IsNumeral(y)
           /\ Len(m) \in {1, 2} /\ IsNumeral(m)
           /\ Len(d) \in {1, 2} /\ IsNumeral(d)
           /\ StrToNat(y) >= 1
           /\ StrToNat(m) \in 1..12
           /\ StrToNat(d) \in 1..DaysIn(StrToNat(y), StrToNat(m))

DateVal(s) ==
    LET a == CHOOSE i \in Dashes(s) : \A j \in Dashes(s) : i <= j
        b == CHOOSE i \in Dashes(s) : \A j \in Dashes(s) : i >= j
    IN  StrToNat(SubSeq(s, 1, a - 1)) * 10000
        + StrToNat(SubSeq(s, a + 1, b - 1)) * 100
        + StrToNat(SubSeq(s, b + 1, Len(s)))

IsNow(s) == [i \in 1..Len(s) |-> Lower(s[i])] = S_now

\* valid_date_format: "now" in any case is today, else a %Y-%m-%d date, else
\* an ArgumentTypeError.
valid_date_format_ok(s) == IsNow(s) \/ DateOk(s)
valid_date_format(s) == IF IsNow(s) THEN Today ELSE DateVal(s)

\* A query that is passed on with its quotes.
ValidQueryKeep(user_query) == user_query

\* valid_query: one pair of outer single quotes is removed.
valid_query(user_query) ==
    IF Len(user_query) >= 1 /\ user_query[1] = "'" /\ user_query[Len(user_query)] = "'"
    THEN SubSeq(user_query, 2, Len(user_query) - 1)
    ELSE user_query

\* The names the notebook session holds (ipy.user_ns), each a list of terms.
UserNs == [terms |-> <<S_alpha, S_beta>>]
S_terms == <<"t", "e", "r", "m", "s">>
InUserNs(name) == name = S_terms
valid_list(name) == UserNs.terms

\* An argument token that starts with "-" is an option string to argparse,
\* unless it reads as a negative number.
IsOptionLike(tok) ==
    Len(tok) >= 1 /\ tok[1] = "-" /\ ~(Len(tok) >= 2 /\ IsNumeral(Tail(tok)))

\* What argparse has written to the cell's output: nothing, the help of a
\* parser, or an error with the argument value it quotes.
NoPrint == [text |-> "", arg |-> <<>>]

\* A subparser whose options default to other values.
NamespaceOtherDefaults(command) ==
    [command |-> command, error |-> FALSE, message |-> <<>>, printed |-> NoPrint,
     seen |-> {}, limit |-> 10, date_start |-> 0, date_end |-> 0,
     query |-> <<>>, images |-> TRUE, images_set |-> FALSE, uri |-> PyStr(<<>>)]

\* The namespace a subparser starts from: its defaults (the default of
\* --date_end is the string "now", which argparse converts with the option's
\* type); seen holds the dests of the options met so far.  error and message
\* are those of parsed_input, printed is what argparse wrote before it exited.
Namespace(command) ==
    [command |-> command, error |-> FALSE, message |-> <<>>, printed |-> NoPrint,
     seen |-> {}, limit |-> 25, date_start |-> 0, date_end |-> valid_date_format(S_now),
     query |-> <<>>, images |-> FALSE, images_set |-> FALSE, uri |-> PyStr(<<>>)]

\* The message of the SystemExit branch, up to its hint at the help flags.
M_invalid_input ==
    <<"I", "n", "v", "a", "l", "i", "d", " ", "i", "n", "p", "u", "t",
      " ", "r", "e", "c", "e", "i", "v", "e", "d", ",", " ", "s", "e",
      "e", " ", "t", "h", "e", " ", "o", "u", "t", "p", "u", "t", " ",
      "a", "b", "o", "v", "e", ".">>

\* The message of the branch for a cell of n lines.
M_cell_magic(n) ==
    <<"C", "e", "l", "l", " ", "m", "a", "g", "i", "c", " ", "c", "o",
      "n", "t", "a", "i", "n", "e", "d", " ">>
    \o <<DigitChars[n + 1]>> \o
    <<" ", "l", "i", "n", "e", "s", ",", " ", "b", "u", "t", " ", "s",
      "h", "o", "u", "l", "d", " ", "b", "e", "e", "x", "a", "c", "t",
      "l", "y", " ", "1", ".">>

\* The message of the branch for any other exception e.
M_exception(e) ==
    <<"E", "x", "c", "e", "p", "t", "i", "o", "n", " ", "w", "h", "i",
      "l", "e", " ", "p", "a", "r", "s", "i", "n", "g", " ", "u", "s",
      "e", "r", " ", "i", "n", "p", "u", "t", ":", " ">> \o e

\* str(e) of the AttributeError display_help raises.
E_no_parser ==
    <<"'", "U", "s", "e", "r", "I", "n", "p", "u", "t", "P", "a", "r",
      "s", "e", "r", "'", " ", "o", "b", "j", "e", "c", "t", " ", "h",
      "a", "s", " ", "n", "o", " ", "a", "t", "t", "r", "i", "b", "u",
      "t", "e", " ", "'", "p", "a", "r", "s", "e", "r", "'">>

\* parse_args left by SystemExit: the error flag and its message.
Failed(ns) ==
    [ns EXCEPT !.error = TRUE, !.message = M_invalid_input]

\* argparse's error(): the text, with the value it quotes, is written to the
\* output and the parser exits.
ArgError(ns, text, arg) ==
    [Failed(ns) EXCEPT !.printed = [text |-> text, arg |-> arg]]

\* The help action: the parser's help is written and the parser exits.
PrintHelp(ns) ==
    [Failed(ns) EXCEPT !.printed = [text |-> "help", arg |-> <<>>]]

\* A parser that has no help flag.
IsHelpNever(tok) == FALSE

\* The option strings of the help action every parser has: -h, --help and
\* the abbreviations of --help that argparse takes.
IsHelp(tok) ==
    \/ tok = S_h
    \/ Len(tok) >= 3 /\ Len(tok) <= Len(S_help) /\ tok = SubSeq(S_help, 1, Len(tok))

\* One option of a subcommand and its value, as argparse stores them.
TakeOption(ns, opt, val) ==
    LET cmd == ns.command
        search == cmd \in {"search_media", "search_chat"}
        long(name) == <<"-", "-">> \o name
    IN  IF search /\ opt \in {S_l, long(<<"l", "i", "m", "i", "t">>)}
        THEN IF IntOk(val)
             THEN [ns EXCEPT !.limit = IntVal(val), !.seen = @ \cup {"limit"}]
             ELSE ArgError(ns, "invalid int value", val)
        ELSE IF search /\ opt \in {S_s, long(<<"d", "a", "t", "e", "_", "s", "t", "a", "r", "t">>)}
        THEN IF valid_date_format_ok(val)
             THEN [ns EXCEPT !.date_start = valid_date_format(val),
                             !.seen = @ \cup {"date_start"}]
             ELSE ArgError(ns, "Not a valid date", val)
        ELSE IF search /\ opt \in {S_e, long(<<"d", "a", "t", "e", "_", "e", "n", "d">>)}
        THEN IF valid_date_format_ok(val)
             THEN [ns EXCEPT !.date_end = valid_date_format(val),
                             !.seen = @ \cup {"date_end"}]
             ELSE ArgError(ns, "Not a valid date", val)
        ELSE IF cmd = "search_media" /\ opt \in {S_q, long(<<"q", "u", "e", "r", "y">>)}
        THEN [ns EXCEPT !.query = valid_query(val), !.seen = @ \cup {"query"}]
        ELSE IF cmd = "search_chat" /\ opt \in {S_q, long(<<"q", "u", "e", "r", "y">>)}
        THEN IF "list" \in ns.seen
             THEN ArgError(ns, "not allowed with argument -u/--list", <<>>)
             ELSE [ns EXCEPT !.query = Append(@, val), !.seen = @ \cup {"query"}]
        ELSE IF cmd = "search_chat" /\ opt \in {S_u, long(<<"l", "i", "s", "t">>)}
        THEN IF ~InUserNs(val)
             THEN ArgError(ns, "The list is not currently loaded", val)
             ELSE IF "query" \in ns.seen
             THEN ArgError(ns, "not allowed with argument -q/--query", <<>>)
             ELSE [ns EXCEPT !.query = valid_list(val), !.seen = @ \cup {"list"}]
        ELSE IF cmd = "get_image" /\ opt \in {S_u, S_uri}
        THEN [ns EXCEPT !.uri = PyStr(val), !.seen = @ \cup {"uri"}]
        ELSE ArgError(ns, "unrecognized arguments", opt)

RECURSIVE ParseOptions(_, _)
\* The subparser's walk over the argument tokens: the help flag, which
\* prints the help and exits, a flag of its own, an option with its one
\* value, or an error (an unknown token, a missing value).
ParseOptions(ns, toks) ==
    IF ns.error \/ Len(toks) = 0 THEN ns
    ELSE IF IsHelp(toks[1]) THEN PrintHelp(ns)
    ELSE IF ns.command = "search_media" /\ toks[1] = S_images
    THEN ParseOptions([ns EXCEPT !.images = TRUE, !.images_set = TRUE], Tail(toks))
    ELSE IF ns.command = "search_media" /\ toks[1] = S_no_images
    THEN ParseOptions([ns EXCEPT !.images = FALSE, !.images_set = TRUE], Tail(toks))
    ELSE IF Len(toks) < 2 \/ IsOptionLike(toks[2])
    THEN ArgError(ns, "expected one argument", toks[1])
    ELSE ParseOptions(TakeOption(ns, toks[1], toks[2]), Tail(Tail(toks)))

\* A search_chat that requires its start date only.
RequiredDateOnly(command) ==
    IF command \in {"search_media", "search_chat"} THEN {{"date_start"}}
    ELSE {{"uri"}}

\* The options a subcommand requires.
Required(command) ==
    IF command = "search_media" THEN {{"date_start"}, {"query"}}
    ELSE IF command = "search_chat" THEN {{"date_start"}, {"query", "list"}}
    ELSE {{"uri"}}

CommandName(tok) ==
    IF tok = S_search_media THEN "search_media"
    ELSE IF tok = S_search_chat THEN "search_chat"
    ELSE IF tok = S_get_image THEN "get_image"
    ELSE "invalid"

\* cell_parser.parse_args(tokens): the namespace, or error (SystemExit).
ParseArgs(toks) ==
    IF Len(toks) >= 1 /\ IsHelp(toks[1])
    THEN PrintHelp(Namespace("invalid"))
    ELSE IF Len(toks) = 0 \/ CommandName(toks[1]) = "invalid"
    THEN ArgError(Namespace("invalid"), "invalid choice", <<>>)
    ELSE LET ns == ParseOptions(Namespace(CommandName(toks[1])), Tail(toks))
         IN  IF ns.error THEN ns
             ELSE IF \E need \in Required(ns.command) : need \cap ns.seen = {}
             THEN ArgError(ns, "the following arguments are required", <<>>)
             ELSE ns

\* s holds sub as a run of characters.
Contains(s, sub) ==
    \E i \in 1..(Len(s) - Len(sub) + 1) : SubSeq(s, i, i + Len(sub) - 1) = sub

\* re.search(r"(\-h|\-\-help)", line): the line holds "-h" somewhere, in a
\* token of its own or inside one.
HelpAsked(toks) == \E k \in 1..Len(toks) : Contains(toks[k], S_h)

\* display_help reads self.parser, an attribute the class never sets: an
\* AttributeError, which parse_input turns into its error flag and message.
display_help(ns) ==
    [ns EXCEPT !.error = TRUE, !.message = M_exception(E_no_parser)]

\* parse_input(input, "cell"): a cell of one line is parsed, and its help is
\* asked for when the line holds a help flag; any other cell is an error.
parse_input(input) ==
    IF input.lines = 1
    THEN LET ns == ParseArgs(input.tokens)
         IN  IF ~ns.error /\ HelpAsked(input.tokens) THEN display_help(ns)
             ELSE ns
    ELSE [Namespace("invalid") EXCEPT
             !.error = TRUE, !.message = M_cell_magic(input.lines)]


\* ------------------------------------------------------------------- state
VARIABLES
    input,          \* what the entry point was called with
    pc,             \* where the calling thread is
    ns,             \* parsed_input["input"], the namespace of the command
    items,          \* the FetchItems of the call or batch in progress
    fetch,          \* the _fetch call of each item
    submitted,      \* how many items the executor was handed
    yielded,        \* the futures as_completed has yielded
    results,        \* the results list of _concurrent_fetches
    response,       \* search_media's primary (query, response, hits_count)
    progress,       \* progress_bar.n
    total_hits,     \* progress_bar.postfix[0]
    exc,            \* the exception in flight, "" when none
    rows,           \* the flattened rows handed to the dataframe
    failed_requests,\* the failure list search_chat displays
    status,         \* the status customQuery returns
    collecting,     \* the future whose result the as_completed loop holds
    session_headers,\* self.session.headers of the session-based client
    sent,           \* the requests the session-based client has sent
    calls           \* the calls made on the session-based client

\* The state of the session-based client of src/utils.
session == <<session_headers, sent, calls>>

vars == <<input, pc, ns, items, fetch, submitted, yielded, results, response,
          progress, total_hits, exc, rows, failed_requests, status, collecting,
          session>>

\* ------------------------------------------------------------------ inputs
\* network says whether the connection to the service holds for the whole
\* call ("up"), a request may fail to connect ("flaky"), or the media endpoint
\* may answer without a Content-Type header ("bare").
CellLine(toks) == [via |-> "cell", lines |-> 1, tokens |-> toks, network |-> "up"]
Flaky(call) == [call EXCEPT !.network = "flaky"]
\* A service whose media endpoint may answer without a Content-Type header.
Bare(call) == [call EXCEPT !.network = "bare"]

RECURSIVE QueryFlags(_)
QueryFlags(terms) ==
    IF Len(terms) = 0 THEN <<>>
    ELSE <<S_q, Head(terms)>> \o QueryFlags(Tail(terms))

\* The term lists of the search_chat commands: distinct terms in turn, and
\* one list that repeats a term.
TermLists ==
    {[i \in 1..n |-> IF i % 2 = 1 THEN S_alpha ELSE S_beta] : n \in 1..MaxItems}
    \cup {<<S_alpha, S_alpha>>}

\* The storage URIs get_image is asked for.
Uris == {<<"u">>, StorageUri(1)}

Inputs ==
    {CellLine(<<S_search_chat, S_l, <<"1">>, S_s, S_2024_01_01>> \o QueryFlags(t)) :
        t \in TermLists}
    \cup {CellLine(<<S_search_chat, S_s, S_2024_01_01, S_q, S_alpha>>)}
    \cup {CellLine(<<S_search_chat, S_l, <<"1">>, S_s, S_2024_01_01, S_u, S_terms>>)}
    \cup {CellLine(<<S_search_media, S_s, S_2024_01_01, S_q, S_wells>> \o im) :
              im \in {<<>>, <<S_images>>, <<S_no_images>>}}
    \cup {CellLine(<<S_get_image, S_u, u>>) : u \in Uris}
    \cup {CellLine(<<S_get_image>>)}
    \cup {[via |-> "cell", lines |-> 2, network |-> "up",
           tokens |-> <<S_search_media, S_s, S_2024_01_01, S_q, S_wells>>]}
    \cup {CellLine(<<S_search_media, S_s, S_2024_01_01, S_q, S_wells>> \o opt) :
              opt \in {<<S_l, <<"0">>>>, <<S_l, <<"-", "5">>>>,
                       <<S_e, S_2023_12_31>>, <<S_e, S_now>>}}
    \cup {CellLine(<<S_search_chat, S_s, S_2024_01_01>> \o src) :
              src \in {<<>>, <<S_q, S_alpha, S_u, S_terms>>,
                       <<S_u, S_terms, S_q, S_alpha>>}}
    \cup {CellLine(<<S_search_chat, S_s, S_2024_01_01, S_u, S_nolist>>)}
    \cup {CellLine(<<S_search_media, S_h>>),
          CellLine(<<S_search_chat, S_help>>),
          CellLine(<<S_get_image, S_h>>),
          CellLine(<<S_search_media, S_s, S_2024_01_01, S_q, S_wells, S_h>>),
          CellLine(<<S_search_media, S_s, S_2024_01_01, S_q, S_h>>),
          CellLine(<<S_search_media, S_s, S_2024_01_01, S_q, S_dash_h>>)}
    \cup {CellLine(<<S_search_media, S_s, S_2024_01_01, S_q, S_quoted>>)}
    \cup {CellLine(<<S_search_chat, S_l, <<"1">>, S_s, S_2024_01_01,
                     S_q, S_quoted_term>>)}
    \cup {[via |-> "api", command |-> "get_image", uri |-> PyList(l),
           network |-> "up"] :
              l \in {<<PyStr(StorageUri(1))>>,
                     <<PyStr(StorageUri(1)), PyStr(StorageUri(2))>>}}
    \cup {Flaky(CellLine(<<S_search_media, S_s, S_2024_01_01, S_q, S_wells>> \o im)) :
              im \in {<<>>, <<S_images>>}}
    \cup {Flaky(CellLine(<<S_search_chat, S_l, <<"1">>, S_s, S_2024_01_01,
                           S_q, S_alpha, S_q, S_beta>>))}
    \cup {Bare(CellLine(<<S_search_media, S_l, <<"1">>, S_s, S_2024_01_01,
                          S_q, S_wells, S_images>>))}

NoStatus == [kind |-> "none", message |-> ""]

\* The as_completed loop between two futures: it holds no result.
NotCollecting == [i |-> 0, n |-> 0]

\* FlashpointAPI.__init__ of the session-based client: the headers every
\* request of the session is sent with.
SessionHeaders ==
    [Authorization |-> "Bearer token", ContentType |-> "application/json"]

\* A client that was constructed and has made no call.
NewSession ==
    /\ session_headers = SessionHeaders
    /\ sent = <<>>
    /\ calls = 0

\* No command was given yet.
NoCommand ==
    /\ pc = "start"
    /\ ns = Namespace("invalid")
    /\ items = <<>>
    /\ fetch = <<>>
    /\ submitted = 0
    /\ yielded = {}
    /\ results = <<>>
    /\ response = None
    /\ progress = 0
    /\ total_hits = 0
    /\ exc = ""
    /\ rows = <<>>
    /\ failed_requests = <<>>
    /\ status = NoStatus
    /\ collecting = NotCollecting

Init ==
    /\ input \in Inputs
    /\ NoCommand
    /\ NewSession

\* ------------------------------------------------------------- customQuery
\* An entry point without its except clause: the exception leaves it.
RaiseUncaught(e) ==
    /\ pc' = "done"
    /\ exc' = e
    /\ rows' = <<>>
    /\ status' = [kind |-> "raised", message |-> e]

\* An exception reaches customQuery's except clause (a call through the cell
\* magic), or leaves the API method (a direct call).
Raise(e) ==
    /\ pc' = "done"
    /\ exc' = e
    /\ rows' = <<>>
    /\ status' = IF input.via = "cell"
                 THEN [kind |-> "Failure", message |-> e]
                 ELSE [kind |-> "raised", message |-> e]

\* An entry point that goes on to the API call whatever the parser said.
ParseFailedNever(parsed_input) == FALSE

\* if parsed_input["error"] is True
ParseFailed(parsed_input) == parsed_input.error

\* customQuery up to the dispatch: parse the cell; a parse error ends the
\* call with no rows and a Failure status that carries the parser's message.
ParseInput ==
    /\ pc = "start"
    /\ input.via = "cell"
    /\ ns' = parse_input(input)
    /\ IF ParseFailed(ns')
       THEN /\ pc' = "done"
            /\ status' = [kind |-> "Failure", message |-> ns'.message]
       ELSE /\ pc' = "handler"
            /\ status' = status
    /\ UNCHANGED <<session, input, collecting, items, fetch, submitted, yielded, results, response,
                   progress, total_hits, exc, rows, failed_requests>>

\* A direct call of an API method with its keyword arguments.
ApiCall ==
    /\ pc = "start"
    /\ input.via = "api"
    /\ ns' = [Namespace(input.command) EXCEPT !.uri = input.uri]
    /\ pc' = "handler"
    /\ UNCHANGED <<session, input, collecting, items, fetch, submitted, yielded, results, response,
                   progress, total_hits, exc, rows, failed_requests, status>>


\* -------------------------------------------------------------- FetchItems
\* The Lucene query of a search payload: the user's query, the date range and
\* the fixed filter of the command.
SearchPayload(q, args, filter) ==
    [size |-> args.limit,
     query |-> [q |-> q, date_start |-> args.date_start,
                date_end |-> args.date_end, filter |-> filter]]

FetchItem(method, url, query, payload, content_type) ==
    [method |-> method, url |-> url, query |-> query, payload |-> payload,
     headers |-> content_type]

\* search_media's primary item.
MediaItem(args) ==
    FetchItem("post", "all/search", args.query,
              SearchPayload(args.query, args, "chat AND message, with media"),
              "application/json")

\* An item that carries the first term of the command whatever its own is.
ChatItemFirstTerm(q, args) ==
    FetchItem("post", "all/search", args.query[1],
              SearchPayload(args.query[1], args, "chat AND message"),
              "application/json")

\* search_chat's item for the term q.
ChatItem(q, args) ==
    FetchItem("post", "all/search", q,
              SearchPayload(q, args, "chat AND message"), "application/json")

\* A GET of the media-asset endpoint.
ImageItem(query, asset_id) ==
    FetchItem("get", "media/assets", query, [asset_id |-> asset_id], "image/jpeg")

\* An item that asks for the image of the first hit whatever its index.
SecondaryItemFirstUri(hits, idx) == ImageItem(idx, hits[1].storage_uri)

\* search_media's item for the hit at index idx (from 0) of the primary hits.
SecondaryItem(hits, idx) == ImageItem(idx, hits[idx + 1].storage_uri)

\* get_image's item for the i-th turn of "for u in uri": the loop variable u
\* is not used, the payload and the key are uri itself.
GetImageItem(uri, i) == ImageItem(uri, uri)

\* ---------------------------------------------------------------- handlers
\* search_media up to its call of _fetch for the primary item.
SearchMediaStart ==
    /\ pc = "handler"
    /\ ns.command = "search_media"
    /\ items' = <<MediaItem(ns)>>
    /\ fetch' = <<NewFetch("request")>>
    /\ progress' = 0
    /\ total_hits' = 0
    /\ pc' = "primary"
    /\ UNCHANGED <<session, input, collecting, ns, submitted, yielded, results, response, exc, rows,
                   failed_requests, status>>

\* search_chat up to its call of _concurrent_fetches: one item per term.
SearchChatStart ==
    /\ pc = "handler"
    /\ ns.command = "search_chat"
    /\ items' = [i \in 1..Len(ns.query) |-> ChatItem(ns.query[i], ns)]
    /\ fetch' = [i \in 1..Len(ns.query) |-> NewFetch("idle")]
    /\ progress' = 0
    /\ total_hits' = 0
    /\ pc' = "batch"
    /\ UNCHANGED <<session, input, collecting, ns, submitted, yielded, results, response, exc, rows,
                   failed_requests, status>>

\* get_image up to its call of _concurrent_fetches: one item per element of
\* uri (per character, when uri is the str the cell parser stored).
GetImageStart ==
    /\ pc = "handler"
    /\ ns.command = "get_image"
    /\ items' = [i \in 1..Len(Iterate(ns.uri)) |-> GetImageItem(ns.uri, i)]
    /\ fetch' = [i \in 1..Len(Iterate(ns.uri)) |-> NewFetch("idle")]
    /\ progress' = 0
    /\ total_hits' = 0
    /\ pc' = "batch"
    /\ UNCHANGED <<session, input, collecting, ns, submitted, yielded, results, response, exc, rows,
                   failed_requests, status>>

\* ------------------------------------------------------------ _fetch steps
\* One request of item i and the branch _fetch takes on the answer, or the
\* failure of the request.
Request(i) ==
    /\ i \in 1..Len(fetch)
    /\ fetch[i].pc = "request"
    /\ \/ \E r \in Responses(items[i]) :
             fetch' = [fetch EXCEPT ![i] = FetchStep(fetch[i], items[i], r)]
       \/ /\ input.network = "bare"
          /\ items[i].method = "get"
          /\ \E b \in ImageBodies :
                fetch' = [fetch EXCEPT
                             ![i] = FetchStep(fetch[i], items[i], BareResponse(b))]
       \/ /\ input.network = "flaky"
          /\ fetch' = [fetch EXCEPT ![i] = OnRaise(fetch[i], "ConnectionError")]
    /\ UNCHANGED <<session, input, collecting, pc, ns, items, submitted, yielded,
                   results, response, progress, total_hits, exc, rows,
                   failed_requests, status>>

\* Item i's _fetch leaves its loop.  With a value to return it calls
\* progress_bar.update(1), whose "self.n += n" takes no lock: this step is
\* its read of the counter.  Without one it has displayed the error and
\* broken out, and ends.
Leave(i) ==
    /\ i \in 1..Len(fetch)
    /\ fetch[i].pc = "leaving"
    /\ fetch' = [fetch EXCEPT ![i] =
                     IF fetch[i].ret.none
                     THEN [@ EXCEPT !.pc = "done", !.retry_count = 0,
                                    !.nreq = 0, !.delays = <<>>]
                     ELSE [@ EXCEPT !.pc = "update", !.retry_count = 0,
                                    !.nreq = 0, !.delays = <<>>,
                                    !.bar = @ + 1, !.n_read = progress]]
    /\ UNCHANGED <<session, input, collecting, pc, ns, items, submitted, yielded,
                   results, response, progress, total_hits, exc, rows,
                   failed_requests, status>>

\* The write of progress_bar.update(1) by item i's _fetch, which then returns.
Update(i) ==
    /\ i \in 1..Len(fetch)
    /\ fetch[i].pc = "update"
    /\ progress' = fetch[i].n_read + 1
    /\ fetch' = [fetch EXCEPT ![i].pc = "done", ![i].n_read = 0]
    /\ UNCHANGED <<session, input, collecting, pc, ns, items, submitted, yielded,
                   results, response, total_hits, exc, rows, failed_requests,
                   status>>

\* The backoff sleep of item i ends; the loop goes round.
Wake(i) ==
    /\ i \in 1..Len(fetch)
    /\ fetch[i].pc = "sleep"
    /\ fetch' = [fetch EXCEPT ![i].pc = "request"]
    /\ UNCHANGED <<session, input, collecting, pc, ns, items, submitted, yielded, results, response,
                   progress, total_hits, exc, rows, failed_requests, status>>

\* ------------------------------------------------------ _concurrent_fetches
\* The items a worker thread is running _fetch for.
InProgress ==
    {i \in 1..Len(fetch) : fetch[i].pc \in {"request", "sleep", "leaving", "update"}}
Queued == {i \in 1..Len(fetch) : fetch[i].pc = "queued"}
Finished == {i \in 1..Len(fetch) : fetch[i].pc = "done"}

\* executor.submit(self._fetch, item, progress_bar), in the order of items.
Submit ==
    /\ pc = "batch"
    /\ submitted < Len(items)
    /\ submitted' = submitted + 1
    /\ fetch' = [fetch EXCEPT ![submitted + 1].pc = "queued"]
    /\ UNCHANGED <<session, input, collecting, pc, ns, items, yielded, results, response, progress,
                   total_hits, exc, rows, failed_requests, status>>

\* A pool that starts a thread for every item.
PoolUnbounded == TRUE

\* A thread of the pool may take a work item when fewer than max_workers are
\* running one.
PoolHasRoom == Cardinality(InProgress) < max_workers

\* A worker thread takes the oldest queued item and calls _fetch.
Start(i) ==
    /\ i \in Queued
    /\ \A j \in Queued : i <= j
    /\ PoolHasRoom
    /\ fetch' = [fetch EXCEPT ![i].pc = "request"]
    /\ UNCHANGED <<session, input, collecting, pc, ns, items, submitted, yielded, results, response,
                   progress, total_hits, exc, rows, failed_requests, status>>

\* Results kept by correlation key: a later result replaces an earlier one of
\* the same key.
CollectedByKey(res, ret) ==
    IF \E k \in 1..Len(res) : res[k].query = ret.query
    THEN [k \in 1..Len(res) |-> IF res[k].query = ret.query THEN ret ELSE res[k]]
    ELSE Append(res, ret)

\* Results kept only when the status is 200.
CollectedOk(res, ret) ==
    IF ret.response.status_code = 200 THEN Append(res, ret) ELSE res

\* Results keyed by arrival: the k-th result to arrive gets the key of the
\* k-th item.
CollectedByArrival(res, ret) ==
    Append(res, [ret EXCEPT !.query = items[Len(res) + 1].query])

\* What the as_completed loop appends for a future's value.
Collected(res, ret) == Append(res, ret)

\* as_completed yields the finished future i: future.result() raises what
\* the call raised, else its value is unpacked (a TypeError when _fetch
\* returned None); a 200 is added to total_hits and
\* progress_bar.update(0) reads the bar's counter; any other result is
\* appended to results.
Collect(i) ==
    /\ pc = "batch"
    /\ submitted = Len(items)
    /\ i \in Finished \ yielded
    /\ yielded' = yielded \cup {i}
    /\ IF fetch[i].ret.none
       THEN /\ pc' = "unwind"
            /\ exc' = IF fetch[i].ret.raised # "" THEN fetch[i].ret.raised
                      ELSE "TypeError: cannot unpack non-iterable NoneType object"
            /\ UNCHANGED <<results, total_hits, collecting>>
       ELSE IF fetch[i].ret.response.status_code = 200
       THEN /\ total_hits' = total_hits + fetch[i].ret.hits_count
            /\ collecting' = [i |-> i, n |-> progress]
            /\ pc' = "update0"
            /\ UNCHANGED <<results, exc>>
       ELSE /\ results' = Collected(results, fetch[i].ret)
            /\ UNCHANGED <<pc, exc, total_hits, collecting>>
    /\ UNCHANGED <<session, input, ns, items, fetch, submitted, response, progress,
                   rows, failed_requests, status>>

\* The write of progress_bar.update(0) by the as_completed loop, which then
\* appends the result it holds.
CollectUpdate ==
    /\ pc = "update0"
    /\ progress' = collecting.n + 0
    /\ results' = Collected(results, fetch[collecting.i].ret)
    /\ collecting' = NotCollecting
    /\ pc' = "batch"
    /\ UNCHANGED <<session, input, ns, items, fetch, submitted, yielded, response,
                   total_hits, exc, rows, failed_requests, status>>

\* A loop over the futures that ends with the first it is given.
AsCompletedFirst == yielded # {} \/ Len(items) = 0

\* "for future in as_completed(futures)" has no future left to yield.
AsCompletedExhausted == yielded = 1..Len(items)

\* Every future was yielded: the with blocks are left and results returned.
BatchReturn ==
    /\ pc = "batch"
    /\ submitted = Len(items)
    /\ AsCompletedExhausted
    /\ pc' = "returned"
    /\ UNCHANGED <<session, input, collecting, ns, items, fetch, submitted, yielded, results,
                   response, progress, total_hits, exc, rows, failed_requests,
                   status>>

\* An executor that is left without waiting for its threads.
ShutdownNoWait == TRUE

\* ThreadPoolExecutor.__exit__: shutdown(wait=True) returns when every
\* submitted call has ended.
ShutdownWait == Finished = 1..Len(items)

\* The exception leaves the executor's with block, which waits for every
\* submitted call to end (shutdown(wait=True)), and then the method.
Unwind ==
    /\ pc = "unwind"
    /\ ShutdownWait
    /\ Raise(exc)
    /\ UNCHANGED <<session, input, collecting, ns, items, fetch, submitted, yielded, results,
                   response, progress, total_hits, failed_requests>>


\* ------------------------------------------------- search_media, continued
\* The hit list with the image of one result merged in: the hit at the
\* result's key gets image_content, the base64 text of the response body.
MergeOne(hits, img_response) ==
    [hits EXCEPT ![img_response.query + 1] =
        [@ EXCEPT !.has_image = TRUE,
                  !.image_content = create_b64_image_string(img_response.response.content)]]

\* A merge by arrival: the k-th result goes to the k-th hit.
MergeImagesByArrival(hits, image_responses) ==
    [j \in 1..Len(hits) |->
        IF j <= Len(image_responses)
        THEN [hits[j] EXCEPT
                 !.has_image = TRUE,
                 !.image_content =
                     create_b64_image_string(image_responses[j].response.content)]
        ELSE hits[j]]

RECURSIVE MergeImages(_, _)
\* The loop over image_responses, in the order of the list.
MergeImages(hits, image_responses) ==
    IF Len(image_responses) = 0 THEN hits
    ELSE MergeImages(MergeOne(hits, Head(image_responses)), Tail(image_responses))

\* A search that fetches the images whatever the command asked for.
WithImagesAlways(args) == TRUE

\* "if images:", the branch search_media takes for the secondary fetches.
WithImages(args) == args.images

\* _fetch has ended in search_media: what it raised goes on, else the
\* hit-count is read from the result (a TypeError on None); with images set the secondary items are built from
\* the hits of the body (a KeyError when it has none), else the result is
\* returned as it is.
SearchMediaPrimaryDone ==
    /\ pc = "primary"
    /\ fetch[1].pc = "done"
    /\ LET r == fetch[1].ret
       IN  IF r.none
           THEN /\ Raise(IF r.raised # "" THEN r.raised
                         ELSE "TypeError: 'NoneType' object is not subscriptable")
                /\ UNCHANGED <<items, fetch, response, progress, total_hits>>
           ELSE IF WithImages(ns) /\ ~r.response.has_hits
           THEN /\ Raise("KeyError: 'hits'")
                /\ UNCHANGED <<items, fetch, response, progress, total_hits>>
           ELSE IF WithImages(ns)
           THEN /\ items' = [k \in 1..Len(r.response.hits) |->
                                SecondaryItem(r.response.hits, k - 1)]
                /\ fetch' = [k \in 1..Len(r.response.hits) |-> NewFetch("idle")]
                /\ response' = r
                /\ progress' = 0
                /\ total_hits' = 0
                /\ pc' = "batch"
                /\ UNCHANGED <<exc, rows, status>>
           ELSE /\ response' = r
                /\ total_hits' = r.hits_count
                /\ pc' = "flatten"
                /\ UNCHANGED <<items, fetch, progress, exc, rows, status>>
    /\ UNCHANGED <<session, input, collecting, ns, submitted, yielded, results, failed_requests>>

\* _concurrent_fetches has returned to search_media: every image is merged
\* into the hit its key names and the body of the primary response replaced.
SearchMediaMerge ==
    /\ pc = "returned"
    /\ ns.command = "search_media"
    /\ response' = [response EXCEPT
                       !.response.hits = MergeImages(@, results)]
    /\ pc' = "flatten"
    /\ UNCHANGED <<session, input, collecting, ns, items, fetch, submitted, yielded, results,
                   progress, total_hits, exc, rows, failed_requests, status>>

\* _concurrent_fetches has returned to search_chat or get_image, which return
\* its list.
BatchHandlerReturn ==
    /\ pc = "returned"
    /\ ns.command \in {"search_chat", "get_image"}
    /\ IF input.via = "cell"
       THEN pc' = "flatten" /\ status' = status
       ELSE pc' = "done" /\ status' = [kind |-> "returned", message |-> ""]
    /\ UNCHANGED <<session, input, collecting, ns, items, fetch, submitted, yielded, results,
                   response, progress, total_hits, exc, rows, failed_requests>>

\* ---------------------------------------------------------- ResponseParser
\* paths_to_extract of ResponseParser.search_media.
MediaPaths ==
    <<"image_content",
      "_source.sort_date",
      "_source.title",
      "_source.media.fpid",
      "_source.body.['text/plain']",
      "_source.enrichments.v1.social_media[*].handle",
      "_source.enrichments.v1.social_media[*].site",
      "_source.enrichments.v1.urls[*].domain",
      "_source.media.md5",
      "_source.media.sha1",
      "_source.media.phash",
      "_source.container.fpid",
      "_source.media.storage_uri",
      "_source.site_actor.names.aliases[*]",
      "_source.site_actor.native_id",
      "_source.media_v2[0].image_enrichment.enrichments.v1.image-analysis.text[0].value">>

\* paths_to_extract of ResponseParser.search_chat.
ChatPaths ==
    <<"_source.fpid",
      "_source.sort_date",
      "_source.title",
      "_source.body.['text/plain']",
      "_source.enrichments.v1.social_media[*].handle",
      "_source.enrichments.v1.social_media[*].site",
      "_source.enrichments.v1.urls[*].domain",
      "_source.container.fpid",
      "_source.site_actor.names.aliases[*]",
      "_source.site_actor.native_id",
      "_source.site_actor.username",
      "_source.container.native_id">>

\* The record the index holds at rank j: how many nodes a path finds in it.
\* A path with a wildcard step finds none, one or several, the title is
\* missing from every other record, any other path finds its one node.
NodeCount(j, path) ==
    IF path = "_source.enrichments.v1.social_media[*].handle" THEN j % 4
    ELSE IF path = "_source.enrichments.v1.social_media[*].site" THEN (j + 1) % 4
    ELSE IF path = "_source.enrichments.v1.urls[*].domain" THEN (j + 2) % 4
    ELSE IF path = "_source.site_actor.names.aliases[*]" THEN (j + 3) % 4
    ELSE IF path = "_source.title" THEN j % 2
    ELSE 1

\* The text of the k-th node a path finds in the record at rank j.
NodeValue(j, path, k) ==
    <<(IF path = "_source.enrichments.v1.social_media[*].handle" THEN "h"
       ELSE IF path = "_source.enrichments.v1.social_media[*].site" THEN "s"
       ELSE IF path = "_source.enrichments.v1.urls[*].domain" THEN "d"
       ELSE IF path = "_source.site_actor.names.aliases[*]" THEN "a"
       ELSE "v"),
      DigitChars[j + 1], DigitChars[k + 1]>>

\* jp.parse(path).find(json): the values of the nodes the path matches in a
\* hit, in match order.  image_content and the storage URI are the hit's own.
Matches(path, json) ==
    IF path = "image_content"
    THEN (IF json.has_image THEN <<json.image_content>> ELSE <<>>)
    ELSE IF path = "_source.media.storage_uri" THEN <<json.storage_uri>>
    ELSE [k \in 1..NodeCount(json.rank, path) |-> NodeValue(json.rank, path, k)]

RECURSIVE Join(_, _)
\* sep.join(values)
Join(sep, values) ==
    IF Len(values) = 0 THEN <<>>
    ELSE IF Len(values) = 1 THEN values[1]
    ELSE values[1] \o sep \o Join(sep, Tail(values))

\* A lookup that keeps the first match alone.
FindFirstValue(path, json) ==
    IF Len(Matches(path, json)) = 0 THEN <<>> ELSE Matches(path, json)[1]

\* _find_value_by_path: the matched values joined with ", ".
find_value_by_path(path, json) == Join(<<",", " ">>, Matches(path, json))

\* The keys a row gets from a path list, each with its flattened value.
PathValues(paths, hit) ==
    [p \in {paths[k] : k \in 1..Len(paths)} |-> find_value_by_path(p, hit)]

\* _find_value_by_path for the path image_content: the value when the hit
\* has the key, the empty string when it has not.
ImageContentOf(hit) == IF hit.has_image THEN hit.image_content ELSE <<>>

\* A flattener that answers an empty hit list with one empty row.
FlattenMediaPadded(resp) ==
    IF Len(resp.response.hits) = 0
    THEN <<[query_term |-> resp.query, image_content |-> <<>>,
            storage_uri |-> <<>>, hit |-> <<>>]>>
    ELSE [j \in 1..Len(resp.response.hits) |->
             [query_term |-> resp.query,
              image_content |-> ImageContentOf(resp.response.hits[j]),
              storage_uri |-> resp.response.hits[j].storage_uri,
              hit |-> <<resp.response.hits[j].q, resp.response.hits[j].rank>>]]

\* ResponseParser.search_media: one row per hit of the body, with the query
\* term and one key per path.
FlattenMedia(resp) ==
    [j \in 1..Len(resp.response.hits) |->
        [query_term |-> resp.query,
         image_content |-> ImageContentOf(resp.response.hits[j]),
         storage_uri |-> resp.response.hits[j].storage_uri,
         hit |-> <<resp.response.hits[j].q, resp.response.hits[j].rank>>,
         values |-> PathValues(MediaPaths, resp.response.hits[j])]]

\* The rows of one 200 result of search_chat, in the order of its hits.
ChatRows(res) ==
    [j \in 1..Len(res.response.hits) |->
        [search_term |-> res.query,
         hit |-> <<res.response.hits[j].q, res.response.hits[j].rank>>,
         values |-> PathValues(ChatPaths, res.response.hits[j])]]

RECURSIVE FlattenChat(_)
\* ResponseParser.search_chat's response_list: the rows of the 200 results.
FlattenChat(responses) ==
    IF Len(responses) = 0 THEN <<>>
    ELSE (IF Head(responses).response.status_code = 200
          THEN ChatRows(Head(responses)) ELSE <<>>)
         \o FlattenChat(Tail(responses))

\* A failure list that names every result.
FailedRequestsAll(responses) ==
    [k \in 1..Len(responses) |-> responses[k].query]

RECURSIVE FailedRequests(_)
\* ResponseParser.search_chat's failed_requests: the keys of the other results.
FailedRequests(responses) ==
    IF Len(responses) = 0 THEN <<>>
    ELSE (IF Head(responses).response.status_code = 200
          THEN <<>> ELSE <<Head(responses).query>>)
         \o FailedRequests(Tail(responses))

\* ResponseParser.get_image reads response[1].content, where response is the
\* list get_image returned: its second element, a tuple, has no content, and
\* a list of one has no second element.
GetImageParseError(responses) ==
    IF Len(responses) < 2
    THEN "IndexError: list index out of range"
    ELSE "AttributeError: 'tuple' object has no attribute 'content'"

\* customQuery after the API call: the response parser, the dataframe and
\* the status; any exception is turned into a Failure status.
Flatten ==
    /\ pc = "flatten"
    /\ IF ns.command = "search_media"
       THEN IF response.response.has_hits
            THEN /\ rows' = FlattenMedia(response)
                 /\ status' = [kind |-> "Success", message |-> ""]
                 /\ pc' = "done"
                 /\ UNCHANGED <<exc, failed_requests>>
            ELSE /\ Raise("KeyError: 'hits'")
                 /\ UNCHANGED failed_requests
       ELSE IF ns.command = "search_chat"
       THEN /\ rows' = FlattenChat(results)
            /\ failed_requests' = FailedRequests(results)
            /\ status' = [kind |-> "Success", message |-> ""]
            /\ pc' = "done"
            /\ UNCHANGED exc
       ELSE /\ Raise(GetImageParseError(results))
            /\ UNCHANGED failed_requests
    /\ UNCHANGED <<session, input, collecting, ns, items, fetch, submitted, yielded, results,
                   response, progress, total_hits>>

\* ------------------------------------------- the session-based client
\* The request session.post / session.get sends: the headers of the session
\* go with it.
SessionRequest(method, url, what, headers) ==
    [method |-> method, url |-> url, what |-> what,
     content_type |-> headers.ContentType]

\* get_image's "custom_headers = self.session.headers": the same dict, so
\* the Content-Type it sets is set on the session.
CustomHeaders(headers) == [headers EXCEPT !.ContentType = "image/jpeg"]

RECURSIVE ImageRequests(_, _)
\* search_media's loop over the n hits: one get_image call for each, in
\* order, each a GET of the hit's storage URI.
ImageRequests(n, headers) ==
    IF n = 0 THEN <<>>
    ELSE Append(ImageRequests(n - 1, headers),
                SessionRequest("get", "media/assets", StorageUri(n),
                               CustomHeaders(headers)))

\* client.search_media(query, limit, days, images), the search answered 200
\* with n hits: the POST goes out with the headers of the session; with
\* images set each hit's image is fetched by get_image.
SessionSearchMedia(images, n) ==
    /\ calls < MaxCalls
    /\ calls' = calls + 1
    /\ sent' = Append(sent, SessionRequest("post", "all/search", S_wells,
                                           session_headers))
                \o (IF images THEN ImageRequests(n, session_headers) ELSE <<>>)
    /\ session_headers' = IF images /\ n > 0
                          THEN CustomHeaders(session_headers)
                          ELSE session_headers
    /\ UNCHANGED <<input, pc, ns, items, fetch, submitted, yielded, results,
                   response, progress, total_hits, exc, rows, failed_requests,
                   status, collecting>>

\* client.get_image(query): the Content-Type is set and the GET sent.
SessionGetImage(query) ==
    /\ calls < MaxCalls
    /\ calls' = calls + 1
    /\ session_headers' = CustomHeaders(session_headers)
    /\ sent' = Append(sent, SessionRequest("get", "media/assets", query,
                                           CustomHeaders(session_headers)))
    /\ UNCHANGED <<input, pc, ns, items, fetch, submitted, yielded, results,
                   response, progress, total_hits, exc, rows, failed_requests,
                   status, collecting>>

\* The calls a program makes on one client, in any order.
SessionNext ==
    \/ \E images \in BOOLEAN, n \in 0..MaxHits : SessionSearchMedia(images, n)
    \/ \E u \in Uris : SessionGetImage(u)

\* A program that holds one session-based client and calls it directly.
SessionInit ==
    /\ input = [via |-> "session", network |-> "up"]
    /\ NoCommand
    /\ NewSession

SessionSpec == SessionInit /\ [][SessionNext]_vars

\* ----------------------------------------------------------- specification
Next ==
    \/ ParseInput
    \/ ApiCall
    \/ SearchMediaStart
    \/ SearchChatStart
    \/ GetImageStart
    \/ \E i \in 1..MaxItems : Request(i)
    \/ \E i \in 1..MaxItems : Wake(i)
    \/ \E i \in 1..MaxItems : Leave(i)
    \/ \E i \in 1..MaxItems : Update(i)
    \/ Submit
    \/ \E i \in 1..MaxItems : Start(i)
    \/ \E i \in 1..MaxItems : Collect(i)
    \/ CollectUpdate
    \/ BatchReturn
    \/ Unwind
    \/ SearchMediaPrimaryDone
    \/ SearchMediaMerge
    \/ BatchHandlerReturn
    \/ Flatten

Spec == Init /\ [][Next]_vars

\* A step of a batch: of one of its _fetch calls, of the pool, or of the
\* as_completed loop.
BatchStep ==
    \/ \E i \in 1..MaxItems : Request(i) \/ Wake(i) \/ Leave(i) \/ Update(i)
    \/ \E i \in 1..MaxItems : Start(i) \/ Collect(i)
    \/ Submit
    \/ CollectUpdate
    \/ BatchReturn

\* Every HTTP call returns, every sleep ends and every thread is scheduled:
\* a step of the batch that stays possible is taken.
FairSpec == Spec /\ WF_vars(BatchStep)


\* ================================================================== claims
\* Item i's _fetch has ended on a status other than 200 and 429.
HardError(i) ==
    fetch[i].pc = "done" /\ fetch[i].response.status_code \notin {0, 200, 429}

\* Item i's _fetch has ended on a request that failed to connect.
NetworkError(i) ==
    fetch[i].pc = "done" /\ fetch[i].ret.none /\ fetch[i].ret.raised # ""

\* Item i's _fetch has ended on a 429: the retry ceiling was exhausted.
Exhausted(i) == fetch[i].pc = "done" /\ fetch[i].response.status_code = 429

\* Item i's _fetch has ended on a 200.
Succeeded(i) ==
    /\ fetch[i].pc = "done"
    /\ fetch[i].response.status_code = 200
    /\ ~fetch[i].ret.none

\* Item i's _fetch was run to its end: it has had an answer, or its request
\* failed to connect.
Ran(i) ==
    fetch[i].pc = "done"
    /\ (fetch[i].response.status_code # 0 \/ NetworkError(i))

\* The call in progress is a batch of _concurrent_fetches (not search_media's
\* own _fetch of its primary item).
InBatch == pc \in {"batch", "update0", "unwind", "returned"}

ItemIds == 1..Len(fetch)

\* The elements of a sequence.
Range(seq) == {seq[k] : k \in 1..Len(seq)}

\* C1: in a search_chat batch with an item that ended on a hard error and an
\* item that answered 200 with hits, the operation still returns the rows of
\* every item that answered 200 and the failed item's term is in the failure
\* list; the batch is not aborted.
C1_HardErrorKeepsSuccesses ==
    (/\ pc = "done"
     /\ ns.command = "search_chat"
     /\ ~ns.error
     /\ \E i \in ItemIds : HardError(i)
     /\ \E i \in ItemIds : Succeeded(i) /\ Len(fetch[i].response.hits) >= 1)
    => /\ status.kind = "Success"
       /\ \A i \in ItemIds :
            /\ HardError(i) => items[i].query \in Range(failed_requests)
            /\ Succeeded(i) =>
                 \A j \in 1..Len(fetch[i].response.hits) :
                    \E k \in 1..Len(rows) :
                       /\ rows[k].search_term = items[i].query
                       /\ rows[k].hit = <<items[i].query, j>>

\* C2: search_media with images set, every secondary fetch returned: the
\* image_content merged into the hit at index i is the base64 text of the
\* body the GET with correlation key i obtained, whatever the order in which
\* the results arrived.
C2_ImageMergedByKey ==
    (/\ ns.command = "search_media"
     /\ ns.images
     /\ pc = "flatten")
    => /\ Len(response.response.hits) = Len(items)
       /\ \A k \in ItemIds :
            LET hit == response.response.hits[items[k].query + 1]
            IN  /\ hit.has_image
                /\ hit.storage_uri = items[k].payload.asset_id
                /\ hit.image_content = b64encode(fetch[k].response.content)

\* Two images with different bodies, the second of which arrived first, were
\* merged.
C2_Witness ==
    /\ ns.command = "search_media"
    /\ ns.images
    /\ pc = "flatten"
    /\ Len(results) >= 2
    /\ results[1].query = 1
    /\ results[2].query = 0
    /\ fetch[1].response.content # fetch[2].response.content
    /\ fetch[1].response.status_code = 200
    /\ fetch[2].response.status_code = 200

\* The delays 3^1, ..., 3^n.
PowersOfThree(n) == [k \in 1..n |-> 3 ^ k]

\* Item i's loop has had its last response and has not yet acted on it.
Leaving(i) == fetch[i].pc = "leaving"

\* C3: an item answered 429 every time makes exactly max_retries + 1
\* requests, one after another, and sleeps 3^1, ..., 3^max_retries between
\* them, with no sleep after the last; at every moment before that it has
\* slept 3^1, ..., 3^retry_count, one sleep per 429 received.
C3_BackoffSchedule ==
    \A i \in ItemIds :
        /\ (Leaving(i) /\ fetch[i].response.status_code = 429) =>
             /\ fetch[i].nreq = max_retries + 1
             /\ fetch[i].delays = PowersOfThree(max_retries)
        /\ fetch[i].pc \in {"sleep", "request"} =>
             /\ fetch[i].retry_count <= max_retries
             /\ fetch[i].nreq = fetch[i].retry_count
             /\ fetch[i].delays = PowersOfThree(fetch[i].retry_count)
        /\ \A k \in 1..(Len(fetch[i].delays) - 1) :
             fetch[i].delays[k] < fetch[i].delays[k + 1]

\* An item has exhausted its retries.
C3_Witness ==
    \E i \in ItemIds :
        /\ Leaving(i)
        /\ fetch[i].response.status_code = 429
        /\ fetch[i].nreq >= 3
        /\ Len(fetch[i].delays) >= 2

\* C4: when the retry ceiling is exhausted _fetch returns the item's key,
\* the last 429 response and the hit-count 0: neither None nor an exception.
C4_ExhaustedReturns429 ==
    \A i \in ItemIds :
        Exhausted(i) =>
            /\ ~fetch[i].ret.none
            /\ fetch[i].ret.query = items[i].query
            /\ fetch[i].ret.response = fetch[i].response
            /\ fetch[i].ret.response.status_code = 429
            /\ fetch[i].ret.hits_count = 0

\* An exhausted item of a batch has returned its 429.
C4_Witness ==
    /\ InBatch
    /\ \E i \in ItemIds :
          Exhausted(i) /\ ~fetch[i].ret.none /\ fetch[i].ret.hits_count = 0

\* C5: a response with a status other than 200 and 429 ends _fetch at once:
\* the loop is left on it and the call ends, so that request is the item's
\* last (its requests are the 429 responses before it and itself) and no
\* sleep follows it (its sleeps are those of the 429 responses), however
\* many 429 came before.
C5_HardErrorStopsAtOnce ==
    \A i \in ItemIds :
        fetch[i].response.status_code \notin {0, 200, 429} =>
            /\ fetch[i].pc \in {"leaving", "done"}
            /\ Leaving(i) =>
                  /\ fetch[i].nreq = fetch[i].retry_count + 1
                  /\ Len(fetch[i].delays) = fetch[i].retry_count

\* An item is ending on a hard error after two 429 responses.
C5_Witness ==
    \E i \in ItemIds :
        /\ Leaving(i)
        /\ fetch[i].response.status_code = 500
        /\ fetch[i].retry_count = 2
        /\ fetch[i].ret.none

\* The value the cell command gave for -u, as the one identifier it names.
CellIdentifier == PyStr(input.tokens[3])

\* C6: the cell command get_image -u <storage_uri> with one identifier, the
\* media endpoint answering 200, returns exactly one row with the non-empty
\* base64 payload of the image and the matching <img> value, with status
\* Success.
C6_GetImageOneRow ==
    (/\ pc = "done"
     /\ input.via = "cell"
     /\ ns.command = "get_image"
     /\ ~ns.error
     /\ Len(fetch) >= 1
     /\ \A i \in ItemIds : Succeeded(i))
    => /\ status.kind = "Success"
       /\ Len(rows) = 1
       /\ rows[1].b64_image_string # <<>>
       /\ rows[1].b64_image_string = b64encode(fetch[1].response.content)
       /\ rows[1].image_storage_uri =
              format_b64_image_for_dataframe(rows[1].b64_image_string)

\* The identifiers a get_image call names: the elements of the list of a
\* direct call, the one -u value of a cell command.
Identifiers ==
    IF input.via = "api" THEN input.uri.v ELSE <<CellIdentifier>>

\* C7: get_image given N identifiers builds and dispatches exactly N
\* FetchItems, the i-th with the i-th identifier alone as asset_id and as
\* correlation key; one identifier makes exactly one GET.
C7_OneItemPerIdentifier ==
    (ns.command = "get_image" /\ InBatch)
    => /\ Len(items) = Len(Identifiers)
       /\ \A i \in 1..Len(items) :
            /\ items[i].payload.asset_id = Identifiers[i]
            /\ items[i].query = Identifiers[i]

\* C8: at every moment of a batch at most max_workers items have a _fetch in
\* progress (started and not returned, sleeping ones included), whatever the
\* size of the batch.
C8_PoolBound == InBatch => Cardinality(InProgress) <= max_workers

\* The pool is full, one of its items sleeping, while another item waits.
C8_Witness ==
    /\ InBatch
    /\ Cardinality(InProgress) = max_workers
    /\ Queued # {}
    /\ \E i \in InProgress : fetch[i].pc = "sleep"

\* The one-to-one maps of the items onto the positions of the results.
Pairings(n) ==
    {p \in [1..n -> 1..n] : \A a, b \in 1..n : p[a] = p[b] => a = b}

\* C9: a batch whose items all end on a 200 or an exhausted 429 returns one
\* result per submitted item: the results pair off one-to-one with the items,
\* each carrying its item's key and the response that item obtained, in
\* whatever order they completed; and such a batch does return.
C9_OneResultPerItem ==
    /\ pc = "returned" =>
          /\ Len(results) = Len(items)
          /\ \E p \in Pairings(Len(items)) :
                \A i \in 1..Len(items) :
                   /\ results[p[i]].query = items[i].query
                   /\ results[p[i]].response = fetch[i].response
                   /\ results[p[i]].hits_count = fetch[i].ret.hits_count
    /\ pc = "unwind" => \E i \in ItemIds : HardError(i) \/ NetworkError(i)
    /\ (pc = "batch" /\ yielded = 1..Len(items) /\ submitted = Len(items))
          => Len(results) = Len(items)

\* A batch with a repeated key has returned its results in another order
\* than the items were submitted, one of them an exhausted 429.
C9_Witness ==
    /\ pc = "returned"
    /\ Len(items) >= 3
    /\ items[1].query = items[3].query
    /\ results[1].query = items[2].query
    /\ results[1].response = fetch[2].response
    /\ \E i \in ItemIds : Exhausted(i)
    /\ \E i \in ItemIds : Succeeded(i)

\* C10: an item that exhausts its 429 retries does not abort its siblings:
\* the batch is never unwound for it, every other item is run to its end,
\* and the returned results hold its 429 result and every sibling's result.
C10_ExhaustedKeepsSiblings ==
    \A i \in ItemIds :
        (InBatch /\ Exhausted(i)) =>
            /\ i \in yielded => \E k \in 1..Len(results) :
                  /\ results[k].query = items[i].query
                  /\ results[k].response.status_code = 429
                  /\ results[k].hits_count = 0
            /\ pc = "unwind" => \E j \in yielded : HardError(j) \/ NetworkError(j)
            /\ pc = "returned" =>
                  \A j \in ItemIds :
                     /\ fetch[j].pc = "done"
                     /\ fetch[j].response.status_code # 0
                     /\ \E k \in 1..Len(results) : results[k] = fetch[j].ret

\* A batch with an exhausted item and a sibling that answered 200 after it
\* has returned both results.
C10_Witness ==
    /\ pc = "returned"
    /\ Len(items) >= 2
    /\ Exhausted(1)
    /\ Succeeded(2)
    /\ results[1].response.status_code = 429
    /\ results[2].response.status_code = 200

RECURSIVE TermsOf(_)
\* The query terms a search_chat command gives, in the order it gives them:
\* the value of each -q, the elements of the list -u names.
TermsOf(toks) ==
    IF Len(toks) < 2 THEN <<>>
    ELSE (IF toks[1] = S_q THEN <<toks[2]>>
          ELSE IF toks[1] = S_u /\ InUserNs(toks[2]) THEN UserNs.terms
          ELSE <<>>)
         \o TermsOf(Tail(Tail(toks)))

\* The value a command gives for the option opt, or none when it does not.
GivenValue(opt, none) ==
    IF \E k \in 2..(Len(input.tokens) - 1) : input.tokens[k] = opt
    THEN input.tokens[(CHOOSE k \in 2..(Len(input.tokens) - 1) :
                          input.tokens[k] = opt) + 1]
    ELSE none

\* C11: search_chat given N query terms, as N -q flags or as a named list of
\* N terms, builds exactly N FetchItems, the i-th with the i-th term as its
\* correlation key and in its payload, all with the size the command gave
\* (25 when it gave none) and one and the same date range; and all N are
\* handed to the executor and run before the batch is left. The terms, the
\* size and the start date are read off the command in the states where no
\* item is submitted yet; the namespace that holds them is not written later.
C11_OneItemPerTerm ==
    (/\ input.via = "cell"
     /\ ns.command = "search_chat"
     /\ ~ns.error
     /\ pc \notin {"start", "handler"})
    => /\ submitted = 0 =>
             LET terms == TermsOf(Tail(input.tokens))
             IN  /\ ns.query = terms
                 /\ ns.limit = StrToNat(GivenValue(S_l, <<"2", "5">>))
                 /\ ns.date_start = DateVal(GivenValue(S_s, <<>>))
       /\ Len(items) = Len(ns.query)
       /\ \A i \in 1..Len(items) :
             /\ items[i].query = ns.query[i]
             /\ items[i].payload.query.q = ns.query[i]
             /\ items[i].payload.size = ns.limit
             /\ items[i].payload.query.date_start = ns.date_start
             /\ items[i].payload.query.date_end =
                    items[1].payload.query.date_end
             /\ items[i].method = "post"
       /\ submitted <= Len(items)
       /\ pc \in {"returned", "flatten", "done"} =>
             /\ submitted = Len(items)
             /\ \A i \in 1..Len(items) : Ran(i)

\* A batch of three terms given by -q, the second unlike the first, has
\* returned.
C11_Witness ==
    /\ pc = "returned"
    /\ ns.command = "search_chat"
    /\ Len(items) = 3
    /\ items[1].query # items[2].query
    /\ items[2].payload.query.q = input.tokens[9]

RECURSIVE HitsOf200(_)
\* The number of hits the results of status 200 of a list hold together.
HitsOf200(res) ==
    IF Len(res) = 0 THEN 0
    ELSE (IF Head(res).response.status_code = 200
          THEN Len(Head(res).response.hits) ELSE 0)
         + HitsOf200(Tail(res))

\* C12: ResponseParser.search_chat partitions the list of results it is
\* given: there are as many rows as the results of status 200 have hits, each
\* hit of such a result has its row and each row is a hit of such a result,
\* carrying that result's key; the failure list is the keys of the results of
\* another status, in their order; so no result is in both and none in
\* neither.
C12_FlattenerPartitions ==
    (pc = "done" /\ ns.command = "search_chat" /\ status.kind = "Success")
    => LET ok == {k \in 1..Len(results) : results[k].response.status_code = 200}
           failed == SelectSeq(results, LAMBDA x : x.response.status_code # 200)
       IN  /\ Len(rows) = HitsOf200(results)
           /\ \A k \in ok : \A j \in 1..Len(results[k].response.hits) :
                 \E r \in 1..Len(rows) :
                    /\ rows[r].search_term = results[k].query
                    /\ rows[r].hit = <<results[k].response.hits[j].q, j>>
           /\ \A r \in 1..Len(rows) :
                 \E k \in ok : \E j \in 1..Len(results[k].response.hits) :
                    /\ rows[r].search_term = results[k].query
                    /\ rows[r].hit = <<results[k].response.hits[j].q, j>>
           /\ failed_requests = [k \in 1..Len(failed) |-> failed[k].query]
           /\ Len(failed_requests) + Cardinality(ok) = Len(results)

\* A list with a 200 result that has a hit, behind a 429 result, was
\* flattened.
C12_Witness ==
    /\ pc = "done"
    /\ ns.command = "search_chat"
    /\ status.kind = "Success"
    /\ Len(results) >= 2
    /\ results[1].response.status_code = 429
    /\ results[2].response.status_code = 200
    /\ Len(results[2].response.hits) >= 1
    /\ Len(rows) >= 1
    /\ Len(failed_requests) = 1

\* A search_media command the parser accepted, past its parsing.
MediaSearch ==
    /\ input.via = "cell"
    /\ ns.command = "search_media"
    /\ ~ns.error
    /\ pc \notin {"start", "handler"}

\* C13 as stated: a search_media with images not set whose primary search
\* answers 200 makes exactly one HTTP request in total and returns as many
\* rows as the primary response has hits.
C13_ExactlyOneRequest ==
    (MediaSearch /\ ~ns.images)
    => /\ Len(fetch) = 1
       /\ (Leaving(1) /\ fetch[1].response.status_code = 200) =>
             fetch[1].nreq = 1
       /\ (pc = "done" /\ Succeeded(1)) =>
             Len(rows) = Len(fetch[1].response.hits)

\* C13, amended: a search_media with images not set makes no GET of the
\* media-asset endpoint and starts no batch: its only requests are the POSTs
\* of the primary search, one for each 429 answered and one for the last
\* answer, at most max_retries + 1; when the primary search answers 200 it
\* returns as many rows as the primary response has hits.
C13_NoSecondaryFetch ==
    (MediaSearch /\ ~ns.images)
    => /\ Len(items) = 1
       /\ Len(fetch) = 1
       /\ items[1].method = "post"
       /\ submitted = 0
       /\ results = <<>>
       /\ fetch[1].nreq <= max_retries + 1
       /\ (Leaving(1) /\ fetch[1].response.status_code = 200) =>
             fetch[1].nreq = fetch[1].retry_count + 1
       /\ (pc = "done" /\ Succeeded(1)) =>
             /\ status.kind = "Success"
             /\ Len(rows) = Len(fetch[1].response.hits)

\* A search without images whose primary search answered 200 with two hits
\* has returned its rows.
C13_Witness ==
    /\ MediaSearch
    /\ ~ns.images
    /\ pc = "done"
    /\ Succeeded(1)
    /\ Len(fetch[1].response.hits) = 2
    /\ Len(rows) = 2

\* C14: when the primary search_media response is a 200 with an empty hit
\* list, no secondary fetch is issued (with images set the batch is empty,
\* with images not set there is none), no exception is raised, and the call
\* ends with zero rows and status Success.
C14_ZeroHitsZeroRows ==
    (/\ MediaSearch
     /\ ~response.none
     /\ response.response.status_code = 200
     /\ Len(response.response.hits) = 0)
    => /\ exc = ""
       /\ status.kind # "Failure"
       /\ rows = <<>>
       /\ submitted = 0
       /\ results = <<>>
       /\ \A i \in 1..Len(items) : items[i].method = "post"
       /\ ns.images => (items = <<>> /\ fetch = <<>>)
       /\ ~ns.images => Len(items) = 1
       /\ pc = "done" => status.kind = "Success"

\* A search with images set whose primary search found nothing has ended.
C14_Witness ==
    /\ MediaSearch
    /\ ns.images
    /\ pc = "done"
    /\ ~response.none
    /\ response.response.status_code = 200
    /\ Len(response.response.hits) = 0
    /\ status.kind = "Success"
    /\ rows = <<>>

\* C15: _fetch calls progress_bar.update(1) exactly once for an item that
\* completes, on a 200 or on the 429 that exhausts its retries, when its loop
\* is left; it has made no such call while the item is waiting, requesting,
\* sleeping between 429 retries or about to leave the loop, and makes none
\* for an item that ends on a hard error.
C15_ProgressOncePerItem ==
    \A i \in ItemIds :
        /\ fetch[i].bar =
               (IF fetch[i].pc \in {"update", "done"} /\ ~fetch[i].ret.none
                THEN 1 ELSE 0)
        /\ fetch[i].pc \in {"update", "done"} /\ ~fetch[i].ret.none =>
               fetch[i].response.status_code \in {200, 429}
        /\ fetch[i].pc \in {"sleep", "request"} /\ fetch[i].retry_count >= 1 =>
               fetch[i].bar = 0

\* One item has completed on an exhausted 429 and another on a 200, each
\* with one update, while a third sleeps before a retry with none.
C15_Witness ==
    /\ InBatch
    /\ \E i \in ItemIds : Exhausted(i) /\ fetch[i].bar = 1
    /\ \E i \in ItemIds : Succeeded(i) /\ fetch[i].bar = 1
    /\ \E i \in ItemIds :
          fetch[i].pc = "sleep" /\ fetch[i].retry_count >= 1 /\ fetch[i].bar = 0

\* The items of the batch whose _fetch has completed.
Completed == {i \in ItemIds : Succeeded(i) \/ Exhausted(i)}

\* C16: the progress counter shared by the workers of a batch is updated
\* atomically: when the batch has returned, whatever the interleaving of
\* the workers and the dispatcher, it equals the number of items that
\* completed.
C16_ProgressCountsCompleted ==
    pc = "returned" => progress = Cardinality(Completed)

\* The cell was parsed and the parser set its error flag.
ParseError == input.via = "cell" /\ pc # "start" /\ ns.error

\* C17: when the parser sets the error flag, customQuery ends at once: it
\* builds no FetchItem and makes no request, the parse is not gone through
\* again, and it returns no rows with a Failure status that carries the
\* parser's message.
C17_ParseErrorNoRequest ==
    ParseError
    => /\ pc = "done"
       /\ status.kind = "Failure"
       /\ status.message = ns.message
       /\ status.message # <<>>
       /\ rows = <<>>
       /\ items = <<>>
       /\ fetch = <<>>
       /\ submitted = 0
       /\ results = <<>>
       /\ exc = ""

\* A search_chat command that names both sources of its query was refused.
C17_Witness ==
    /\ ParseError
    /\ pc = "done"
    /\ input.lines = 1
    /\ Len(input.tokens) = 7
    /\ input.tokens[1] = S_search_chat
    /\ status.kind = "Failure"

\* A search command the parser accepted.
AcceptedSearch ==
    /\ input.via = "cell"
    /\ pc # "start"
    /\ ~ns.error
    /\ ns.command \in {"search_media", "search_chat"}

\* C18: every search request the parser accepts has a limit above zero: -l 0
\* and a negative limit are refused, and no payload has a size below one.
C18_LimitPositive ==
    AcceptedSearch
    => /\ ns.limit > 0
       /\ \A i \in 1..Len(items) :
             items[i].method = "post" => items[i].payload.size > 0

\* C19: every search request the parser accepts has its start date on or
\* before its end date, given or the default now; a later start date is
\* refused and reaches no payload.
C19_DateOrder ==
    AcceptedSearch
    => /\ ns.date_start <= ns.date_end
       /\ \A i \in 1..Len(items) :
             items[i].method = "post" =>
                items[i].payload.query.date_start <= items[i].payload.query.date_end

\* The command gives the option opt.
Gives(opt) == \E k \in 2..Len(input.tokens) : input.tokens[k] = opt

\* A search_chat command of one line in the state its parsing leaves: the
\* handler is about to run, or the call has ended on the error flag. Neither
\* the command nor the namespace is written after that.
ChatCommand ==
    /\ input.via = "cell"
    /\ pc = "handler" \/ (pc = "done" /\ ns.error)
    /\ input.lines = 1
    /\ Len(input.tokens) >= 1
    /\ input.tokens[1] = S_search_chat

\* C20: a search_chat command that gives both -q and a named list, or
\* neither, is refused with the error flag set and makes no request; one
\* that gives exactly one of them, with a start date and a list that exists,
\* is accepted with a query that is the sequence of its terms, one at least.
C20_QuerySourceExclusive ==
    /\ (input.via = "cell" /\ ns.error)
       => (items = <<>> /\ fetch = <<>> /\ pc = "done")
    /\ ChatCommand
       => LET q == Gives(S_q)
              u == Gives(S_u)
          IN  /\ (q /\ u) => ns.error
              /\ (~q /\ ~u) => ns.error
              /\ (/\ q # u
                  /\ valid_date_format_ok(GivenValue(S_s, <<>>))
                  /\ u => InUserNs(GivenValue(S_u, <<>>)))
                 => /\ ~ns.error
                    /\ Len(ns.query) >= 1
                    /\ ns.query = TermsOf(Tail(input.tokens))

\* The command that gives a named list and then -q was refused.
C20_Witness ==
    /\ ChatCommand
    /\ ns.error
    /\ pc = "done"
    /\ Len(input.tokens) = 7
    /\ input.tokens[4] = S_u
    /\ input.tokens[6] = S_q

\* A search_chat command that names with -u a list the session does not hold,
\* past its parsing.
MissingList ==
    /\ input.via = "cell"
    /\ pc # "start"
    /\ input.lines = 1
    /\ input.tokens[1] = S_search_chat
    /\ Gives(S_u)
    /\ ~InUserNs(GivenValue(S_u, <<>>))

\* C21: for search_chat with -u NAME where NAME is not loaded in the session,
\* parse_input returns a structured error: the error flag is set, no
\* exception escapes, and the message it returns names the missing list NAME.
C21_MissingListNamed ==
    MissingList
    => /\ ns.error
       /\ exc = ""
       /\ status.kind = "Failure"
       /\ Contains(ns.message, GivenValue(S_u, <<>>))

\* A cell command of one line that carries a -h or --help token behind the
\* name of a subcommand, past its parsing.
HelpCommand ==
    /\ input.via = "cell"
    /\ pc # "start"
    /\ input.lines = 1
    /\ Len(input.tokens) >= 2
    /\ CommandName(input.tokens[1]) # "invalid"
    /\ \E k \in 2..Len(input.tokens) : input.tokens[k] \in {S_h, S_help}

\* The place of the first help token of the command.
FirstHelp ==
    CHOOSE k \in 2..Len(input.tokens) :
        /\ input.tokens[k] \in {S_h, S_help}
        /\ \A j \in 2..(k - 1) : input.tokens[j] \notin {S_h, S_help}

\* C22: a cell command that carries a -h or --help token, on any of the
\* three subcommands, never results in an HTTP request, be the rest of the
\* command a complete valid request or not: the call ends on the error flag
\* with a Failure status, no FetchItem and no rows; and when the options
\* before the token are well-formed, what was written is the help.
C22_HelpNoRequest ==
    HelpCommand
    => /\ ns.error
       /\ pc = "done"
       /\ status.kind = "Failure"
       /\ exc = ""
       /\ items = <<>>
       /\ fetch = <<>>
       /\ submitted = 0
       /\ results = <<>>
       /\ rows = <<>>
       /\ ~ParseOptions(Namespace(CommandName(input.tokens[1])),
                        SubSeq(input.tokens, 2, FirstHelp - 1)).error
             => ns.printed.text = "help"

\* A complete valid search_media command with -h behind it has ended with
\* the help written and no request made.
C22_Witness ==
    /\ HelpCommand
    /\ pc = "done"
    /\ Len(input.tokens) = 6
    /\ input.tokens[4] = S_q
    /\ input.tokens[6] = S_h
    /\ ns.printed.text = "help"
    /\ fetch = <<>>

\* The text v is wrapped in one pair of single quotes.
Wrapped(v) == Len(v) >= 2 /\ v[1] = "'" /\ v[Len(v)] = "'"

\* C23: for search_media, a -q value wrapped in one pair of single quotes is
\* parsed into the same text without the two outer quotes, every inner
\* character unchanged, and a value that is not wrapped is parsed unchanged;
\* the parsed text is the correlation key of the primary item and the query
\* embedded in its payload.
C23_QuotesStripped ==
    (MediaSearch /\ pc = "primary")
    => LET v == GivenValue(S_q, <<>>)
       IN  /\ Wrapped(v) =>
                 /\ Len(ns.query) = Len(v) - 2
                 /\ \A k \in 1..Len(ns.query) : ns.query[k] = v[k + 1]
           /\ ~Wrapped(v) => ns.query = v
           /\ items[1].query = ns.query
           /\ items[1].payload.query.q = ns.query

\* The search for '|"w" |c' is asking for |"w" |c.
C23_Witness ==
    /\ MediaSearch
    /\ pc = "primary"
    /\ input.tokens[5] = S_quoted
    /\ fetch[1].pc = "request"
    /\ items[1].payload.query.q = <<"|", "\"", "w", "\"", " ", "|", "c">>

\* C24: for search_chat, a -q value wrapped in one pair of single quotes has
\* the two outer quotes stripped before it is embedded in the payload of its
\* item, the same as for search_media.
C24_ChatQuotesStripped ==
    (/\ input.via = "cell"
     /\ ns.command = "search_chat"
     /\ ~ns.error
     /\ pc = "batch"
     /\ submitted = 0
     /\ Gives(S_q))
    => LET terms == TermsOf(Tail(input.tokens))
       IN  \A i \in 1..Len(terms) :
              Wrapped(terms[i]) =>
                 /\ i <= Len(items)
                 /\ Len(items[i].payload.query.q) = Len(terms[i]) - 2
                 /\ \A k \in 1..(Len(terms[i]) - 2) :
                       items[i].payload.query.q[k] = terms[i][k + 1]

\* C25: any exception raised while a validated request is executed or its
\* response flattened is caught by customQuery: once one is in flight nothing
\* but the unwinding of the batch goes on, and the call ends with no rows and
\* a Failure status that carries the exception's message; a call whose item
\* failed to connect or returned no value ends so; and no call through the
\* cell magic ends with an exception leaving it.
C25_ExceptionsCaught ==
    input.via = "cell"
    => /\ exc # "" => pc \in {"unwind", "done"}
       /\ (exc # "" /\ pc = "done") =>
             /\ status.kind = "Failure"
             /\ status.message = exc
             /\ rows = <<>>
       /\ (pc = "done" /\ \E i \in ItemIds : fetch[i].pc = "done" /\ fetch[i].ret.none)
             => (status.kind = "Failure" /\ exc # "")
       /\ pc = "done" => status.kind \in {"Success", "Failure"}

\* A search_media with images has ended in Failure on a secondary fetch that
\* failed to connect while another had answered.
C25_Witness ==
    /\ input.via = "cell"
    /\ pc = "done"
    /\ ns.command = "search_media"
    /\ ns.images
    /\ Len(fetch) = 2
    /\ NetworkError(2)
    /\ Succeeded(1)
    /\ exc = "ConnectionError"
    /\ status = [kind |-> "Failure", message |-> "ConnectionError"]
    /\ rows = <<>>

\* C26: no failure is silently dropped: a call through the cell magic in
\* which some item, of the primary or of a secondary fetch, ended on a hard
\* error or on an exhausted 429 ends with a Failure status that carries an
\* exception message, or with a failure list that names that item; never
\* with Success and no sign of the failure.
C26_NoSilentFailure ==
    (input.via = "cell" /\ pc = "done" /\ ~ns.error)
    => \A i \in ItemIds :
          (HardError(i) \/ Exhausted(i)) =>
             \/ status.kind = "Failure" /\ status.message # ""
             \/ status.kind = "Success" /\ items[i].query \in Range(failed_requests)

\* The hit the r-th row of a finished search was flattened from.
HitOfRow(r) ==
    IF ns.command = "search_media" THEN response.response.hits[r]
    ELSE Hit(rows[r].hit[1], rows[r].hit[2])

\* C27: for every hit and every path of the command's path list, the
\* flattened value is the empty string when the path matches no node of the
\* hit, the matched value when it matches one, and the matched values joined
\* with ", " in match order when it matches several; and the keys a row has
\* for paths are the paths of the list, each once.
C27_PathValues ==
    (/\ input.via = "cell"
     /\ pc = "done"
     /\ status.kind = "Success"
     /\ ns.command \in {"search_media", "search_chat"})
    => LET list == IF ns.command = "search_media" THEN MediaPaths ELSE ChatPaths
       IN  \A r \in 1..Len(rows) :
              /\ DOMAIN rows[r].values = Range(list)
              /\ Cardinality(Range(list)) = Len(list)
              /\ \A p \in Range(list) :
                    LET m == Matches(p, HitOfRow(r))
                        v == rows[r].values[p]
                        sep == <<",", " ">>
                    IN  /\ Len(m) = 0 => v = <<>>
                        /\ Len(m) = 1 => v = m[1]
                        /\ Len(m) = 2 => v = m[1] \o sep \o m[2]
                        /\ Len(m) = 3 => v = m[1] \o sep \o m[2] \o sep \o m[3]
                        /\ Len(m) <= 3

\* A search_media with images has returned two rows: in one a path matched
\* three nodes and the image was merged, in the other the title was missing.
C27_Witness ==
    /\ pc = "done"
    /\ status.kind = "Success"
    /\ ns.command = "search_media"
    /\ Len(rows) = 2
    /\ rows[1].values["_source.site_actor.names.aliases[*]"] = <<>>
    /\ rows[2].values["_source.enrichments.v1.social_media[*].site"] =
          <<"s", "2", "1", ",", " ", "s", "2", "2", ",", " ", "s", "2", "3">>
    /\ rows[2].values["_source.title"] = <<>>
    /\ rows[1].values["_source.title"] = <<"v", "1", "1">>
    /\ rows[1].values["image_content"] # <<>>

\* The command line names no option but the query source and the start date.
OnlyRequiredGiven ==
    \A k \in 2..Len(input.tokens) :
        (Len(input.tokens[k]) >= 1 /\ input.tokens[k][1] = "-")
        => input.tokens[k] \in
              {S_q, S_s, S_u,
               <<"-", "-", "q", "u", "e", "r", "y">>,
               <<"-", "-", "l", "i", "s", "t">>,
               <<"-", "-", "d", "a", "t", "e", "_", "s", "t", "a", "r", "t">>}

\* C28: a search_media given only -q and -s parses to a request whose end
\* date is today, whose limit is 25 and whose images flag is not set; a
\* search_chat given only its query source and -s parses to a request whose
\* end date is today and whose limit is 25.  The items built from the request
\* carry that size and that end date.
C28_Defaults ==
    (/\ input.via = "cell"
     /\ pc # "start"
     /\ submitted = 0
     /\ ~ns.error
     /\ ns.command \in {"search_media", "search_chat"}
     /\ OnlyRequiredGiven)
    => /\ ns.date_end = Today
       /\ ns.limit = 25
       /\ ns.command = "search_media" => (~ns.images /\ ~WithImages(ns))
       /\ \A i \in 1..Len(items) :
             items[i].method = "post" =>
                /\ items[i].payload.size = 25
                /\ items[i].payload.query.date_end = Today

\* A search_media given -s and -q alone has built its primary item.
C28_Witness ==
    /\ input.via = "cell"
    /\ ns.command = "search_media"
    /\ Len(input.tokens) = 5
    /\ Len(items) = 1
    /\ items[1].payload.size = 25
    /\ ~ns.images
    /\ submitted = 0

\* A search_chat given -s and one -q term alone has built its batch.
C28_WitnessChat ==
    /\ input.via = "cell"
    /\ ns.command = "search_chat"
    /\ OnlyRequiredGiven
    /\ Len(items) = 1
    /\ items[1].payload.query.date_end = Today
    /\ items[1].payload.size = 25
    /\ submitted = 0

\* _concurrent_fetches is running: it submits, or waits for a future.
BatchRunning == pc \in {"batch", "update0"}

\* Some request of the batch had an outcome other than a 200 or a 429: its
\* _fetch is left without a value to return.
OtherOutcome ==
    \E i \in 1..Len(fetch) :
        fetch[i].pc \in {"leaving", "done"} /\ fetch[i].ret.none

\* C29: with every HTTP call returning and every worker scheduled fairly, a
\* batch whose requests are all answered 200 or 429 runs to completion:
\* _concurrent_fetches eventually returns, no _fetch makes more than
\* max_retries + 1 requests, and at the return every item was submitted, run
\* to its end and yielded, none cancelled or left unstarted.
C29_BatchCompletes ==
    /\ [](\A i \in 1..Len(fetch) : fetch[i].nreq <= max_retries + 1)
    /\ [](pc = "returned" =>
             /\ submitted = Len(items)
             /\ yielded = 1..Len(items)
             /\ \A i \in 1..Len(items) :
                   fetch[i].pc = "done" /\ ~fetch[i].ret.none)
    /\ (BatchRunning ~> (pc = "returned" \/ OtherOutcome))

\* A batch of two items has returned after one of them was answered 429 on
\* each of its max_retries + 1 requests and the other 200.
C29_Witness ==
    /\ pc = "returned"
    /\ Len(items) = 2
    /\ \E i, j \in 1..2 :
          /\ fetch[i].ret.response.status_code = 429
          /\ Len(fetch[i].delays) = 0
          /\ fetch[j].ret.response.status_code = 200
    /\ ~OtherOutcome

\* search_media with images set has had its primary hits and built the batch
\* of secondary fetches from them.
SecondaryBatch ==
    /\ ns.command = "search_media"
    /\ ~ns.error
    /\ ns.images
    /\ pc \in {"batch", "update0", "unwind", "returned", "flatten", "done"}
    /\ ~response.none

\* C30: for search_media with images set and a primary response of n hits,
\* the batch handed to _concurrent_fetches is n GETs of the media endpoint
\* whose keys are the indices 0..n-1, each once, the GET of key i asking for
\* the storage URI of hit i; each of them is submitted once the batch
\* collects, and run to its end once the batch is left.
C30_OneGetPerHit ==
    SecondaryBatch
    => LET hits == response.response.hits
           n == Len(hits)
       IN  /\ Len(items) = n
           /\ Len(fetch) = n
           /\ {items[k].query : k \in 1..Len(items)} = 0..(n - 1)
           /\ \A k \in 1..Len(items) :
                 /\ items[k].method = "get"
                 /\ items[k].url = "media/assets"
                 /\ items[k].query = k - 1
                 /\ items[k].payload = [asset_id |-> hits[k].storage_uri]
                 /\ hits[k].storage_uri = StorageUri(hits[k].rank)
           /\ \A j, k \in 1..Len(items) : j # k => items[j].query # items[k].query
           /\ submitted <= n
           /\ (yielded # {} \/ pc # "batch") => submitted = n
           /\ pc \in {"returned", "flatten", "done"} =>
                 \A k \in 1..Len(items) : Ran(k)

\* Two hits were found, the two GETs ask for different images and have both
\* returned.
C30_Witness ==
    /\ SecondaryBatch
    /\ pc = "returned"
    /\ Len(items) = 2
    /\ items[1].payload.asset_id # items[2].payload.asset_id
    /\ items[2].query = 1
    /\ submitted = 2

\* Some hit of the primary response carries a merged image.
SomeImageMerged ==
    /\ ~response.none
    /\ \E j \in 1..Len(response.response.hits) : response.response.hits[j].has_image

\* C31: in search_media with images set the steps are ordered.  While the
\* primary search runs there is no GET among the items; a secondary GET that
\* was handed to the pool finds the primary search ended on a 200; and a hit
\* carries a merged image only after every secondary fetch of the batch has
\* ended, was yielded and has its result in the list.
C31_StepsOrdered ==
    (/\ ns.command = "search_media"
     /\ ~ns.error
     /\ ns.images
     /\ pc \notin {"start", "handler"})
    => /\ pc = "primary" =>
             /\ Len(items) = 1
             /\ items[1].method = "post"
             /\ response.none
       /\ \A k \in 1..Len(items) :
             (items[k].method = "get" /\ fetch[k].pc # "idle")
             => /\ pc # "primary"
                /\ ~response.none
                /\ response.response.status_code = 200
       /\ SomeImageMerged =>
             /\ pc \in {"flatten", "done"}
             /\ yielded = 1..Len(items)
             /\ Len(results) = Len(items)
             /\ \A k \in 1..Len(items) :
                   fetch[k].pc = "done" /\ ~fetch[k].ret.none

\* Two images were merged after both secondary fetches had ended, the
\* second of which was yielded first.
C31_Witness ==
    /\ ns.command = "search_media"
    /\ ns.images
    /\ pc = "flatten"
    /\ Len(items) = 2
    /\ response.response.hits[1].has_image
    /\ response.response.hits[2].has_image
    /\ fetch[2].bar = 1
    /\ results[1].query = 1

\* C32: every row search_chat produces carries as its search term the query
\* term of the request whose response held the row's hit, whatever the order
\* in which the requests of the batch completed; and the rows of one response
\* are together and follow the order of its hits.
C32_RowsCarryTheirTerm ==
    (/\ input.via = "cell"
     /\ pc = "done"
     /\ ns.command = "search_chat"
     /\ status.kind = "Success")
    => /\ \A r \in 1..Len(rows) :
             /\ rows[r].search_term = rows[r].hit[1]
             /\ \E i \in 1..Len(items) :
                   /\ items[i].query = rows[r].search_term
                   /\ items[i].payload.query.q = rows[r].hit[1]
                   /\ Succeeded(i)
                   /\ rows[r].hit[2] <= Len(fetch[i].response.hits)
                   /\ fetch[i].response.hits[rows[r].hit[2]].q = rows[r].search_term
       /\ Len(rows) >= 1 => rows[1].hit[2] = 1
       /\ \A r \in 1..(Len(rows) - 1) :
             \/ rows[r + 1].hit[2] = 1
             \/ /\ rows[r + 1].hit[2] = rows[r].hit[2] + 1
                /\ rows[r + 1].search_term = rows[r].search_term

\* Two terms were searched, the second completed first, and each row has the
\* term of its own request.
C32_Witness ==
    /\ pc = "done"
    /\ ns.command = "search_chat"
    /\ status.kind = "Success"
    /\ Len(items) = 2
    /\ items[1].query # items[2].query
    /\ Len(results) = 2
    /\ results[1].query = items[2].query
    /\ Len(rows) = 2
    /\ rows[1].search_term = items[2].query
    /\ rows[2].search_term = items[1].query

\* One term was searched and its response of two hits flattened in order.
C32_WitnessOrder ==
    /\ pc = "done"
    /\ ns.command = "search_chat"
    /\ status.kind = "Success"
    /\ Len(items) = 1
    /\ Len(rows) = 2
    /\ rows[2].hit[2] = 2

\* C33: a _fetch whose request was answered 200 returns a result with a
\* hit-count: the number of records of hits.hits when the body is declared as
\* JSON, and 1 for any other body, a response that declares no content type
\* included.
C33_HitCountOn200 ==
    \A i \in 1..Len(fetch) :
        (fetch[i].pc \in {"leaving", "update", "done"} /\ fetch[i].response.status_code = 200)
        => /\ ~fetch[i].ret.none
           /\ fetch[i].ret.response = fetch[i].response
           /\ fetch[i].ret.hits_count =
                 IF fetch[i].response.content_type = "application/json"
                 THEN Len(fetch[i].response.hits)
                 ELSE 1

\* C34: for any sequence of responses _fetch goes on requesting only while
\* the responses are 429 and fewer than max_retries + 1 requests were made;
\* a 200 received after k 429s (0 <= k <= max_retries) is returned as a
\* success, with its hit-count, after exactly k + 1 requests; and no request
\* follows a 200.
C34_RetryOnly429 ==
    \A i \in 1..Len(fetch) :
        /\ fetch[i].pc \in {"request", "sleep"} =>
              /\ fetch[i].response.status_code \in {0, 429}
              /\ fetch[i].nreq = fetch[i].retry_count
              /\ fetch[i].nreq <= max_retries
              /\ (fetch[i].nreq = 0) = (fetch[i].response.status_code = 0)
        /\ (fetch[i].pc = "leaving" /\ fetch[i].response.status_code = 200) =>
              /\ fetch[i].retry_count <= max_retries
              /\ fetch[i].nreq = fetch[i].retry_count + 1
              /\ Len(fetch[i].delays) = fetch[i].retry_count
              /\ ~fetch[i].ret.none
              /\ fetch[i].ret.response = fetch[i].response
              /\ fetch[i].ret.hits_count = HitsCount(fetch[i].response)

\* The items are those of a batch of _concurrent_fetches.
BatchItems ==
    /\ ~ns.error
    /\ \/ ns.command \in {"search_chat", "get_image"}
       \/ ns.command = "search_media" /\ Len(items) >= 1 /\ items[1].method = "get"

\* C35: when an item of a batch ends on a hard error the dispatcher returns
\* no result list: the batch is not left before every submitted item has run
\* to its end, then the failure leaves _concurrent_fetches, and the results
\* of the siblings that succeeded are dropped (no row, no Success).
C35_HardErrorAbortsBatch ==
    (BatchItems /\ \E i \in ItemIds : HardError(i))
    => /\ pc \in {"batch", "update0", "unwind", "done"}
       /\ pc = "done" =>
             /\ status.kind \in {"Failure", "raised"}
             /\ exc # ""
             /\ rows = <<>>
             /\ failed_requests = <<>>
             /\ submitted = Len(items)
             /\ \A j \in ItemIds : fetch[j].pc = "done"

\* A search_chat batch has failed on a hard error of its first item after
\* the second item, submitted with it, had run to a 200 with a hit and been
\* collected.
C35_Witness ==
    /\ pc = "done"
    /\ ns.command = "search_chat"
    /\ status.kind = "Failure"
    /\ Len(items) = 2
    /\ HardError(1)
    /\ Succeeded(2)
    /\ Len(fetch[2].response.hits) = 1
    /\ Len(results) = 1
    /\ rows = <<>>

\* C36: when the primary request of search_media ends on a hard error no
\* secondary GET is issued, with images set or not: the primary item stays
\* the only item and nothing is handed to the pool; reading the hit-count of
\* the missing result raises, and customQuery returns no rows and a Failure
\* status.
C36_PrimaryHardError ==
    (/\ MediaSearch
     /\ Len(items) >= 1
     /\ items[1].method = "post"
     /\ HardError(1))
    => /\ Len(items) = 1
       /\ Len(fetch) = 1
       /\ submitted = 0
       /\ yielded = {}
       /\ results = <<>>
       /\ response.none
       /\ pc \in {"primary", "done"}
       /\ pc = "done" =>
             /\ status.kind = "Failure"
             /\ status.message = "TypeError: 'NoneType' object is not subscriptable"
             /\ rows = <<>>

\* A search_media with images set has ended in Failure on a hard error of
\* its primary request; the progress bar was never moved.
C36_Witness ==
    /\ MediaSearch
    /\ ns.images
    /\ pc = "done"
    /\ Len(items) = 1
    /\ items[1].method = "post"
    /\ HardError(1)
    /\ fetch[1].bar = 0
    /\ status.kind = "Failure"

\* C37: in the session-based client, after any sequence of search_media and
\* get_image calls on one client every search POST is sent with the
\* Content-Type application/json: a get_image call, direct or made by
\* search_media for its images, leaves the headers of later searches alone.
C37_SearchPostsJson ==
    \A k \in 1..Len(sent) :
        sent[k].method = "post" => sent[k].content_type = "application/json"

\* C38: a one-line cell command that is complete and valid and has no
\* -h/--help token, but whose query value contains the characters -h, parses
\* to a request whose error flag is false, and the request is executed: only
\* a help token makes a command a request for help.
C38_DashHInQuery ==
    (/\ input.via = "cell"
     /\ input.lines = 1
     /\ pc # "start"
     /\ submitted = 0
     /\ \A k \in 1..Len(input.tokens) : ~IsHelp(input.tokens[k])
     /\ ~ParseArgs(input.tokens).error
     /\ \E k \in 1..Len(input.tokens) : Contains(input.tokens[k], S_h))
    => /\ ~ns.error
       /\ ns.printed = NoPrint
       /\ pc = "done" => (Len(items) >= 1 /\ status.kind # "Failure")

=============================================================================
